---- MODULE Spec2Model ----
(***************************************************************************)
(* A model of the funsor term engine: the interned (cons-hashed) term      *)
(* model of funsor/terms.py, the trampoline and eval of                    *)
(* funsor/engine/engine.py, and the rewrite stages of                      *)
(* funsor/engine/opteinsum_engine.py.                                      *)
(*                                                                         *)
(* Objects live in a heap keyed by object identity (Python's id()).  An    *)
(* instance is a record [cls, args, dims, shape]; args is the canonical    *)
(* argument tuple handed to __init__, with child funsors named by their    *)
(* identity.  A torch.Tensor is a record [did, shape]: did is the identity *)
(* of the tensor object, which is what hashing a torch.Tensor sees.        *)
(***************************************************************************)
EXTENDS Integers, Sequences, FiniteSets, TLC

VARIABLES
    heap,       \* live instances: id -> [cls, args, dims, shape]
    cache,      \* ConsHashedMeta._cache: cls -> (args -> id)
    nextId,     \* the next fresh object identity
    nextData,   \* the next fresh torch.Tensor identity
    held,       \* the instances the client holds a reference to
    call,       \* the last call the client made
    ret,        \* its outcome: [ok, val, val2]
    opt,        \* the frame of a running optimize_reduction
    schedule,       \* trampoline._schedule: the work list of (fn, nargs, nkwargs)
    args_queue,     \* trampoline._args_queue
    kwargs_queue,   \* trampoline._kwargs_queue
    returnvalue,    \* trampoline._returnvalue
    scope,      \* where the trampoline scope stands, and how it failed
    log,        \* the invocations fn(*args, **kwargs) made so far by the drain
    stack       \* the eval invocations that have not returned yet

termVars == <<heap, cache, nextId, nextData, held, call, ret>>
trampVars == <<schedule, args_queue, kwargs_queue, returnvalue, scope, log, stack>>
engineVars == <<opt, schedule, args_queue, kwargs_queue, returnvalue, scope, log, stack>>
vars == <<heap, cache, nextId, nextData, held, call, ret, opt,
          schedule, args_queue, kwargs_queue, returnvalue, scope, log, stack>>

----------------------------------------------------------------------------
(* Bounds of the model.                                                    *)

MaxObjects == 2

----------------------------------------------------------------------------
(* Small input universes.                                                  *)

DimNames == {"i", "j"}
Ops == {"add", "logaddexp"}
UnaryOps == {"neg"}
BinaryOps == {"mul"}
DimTuples == {<<"i">>, <<"i", "j">>, <<"j", "i">>, <<"i", "i">>}
ReduceSets == {{"i"}, {"i", "j"}}
DimSize(d) == IF d = "i" THEN 2 ELSE 3
Classes == {"Variable", "Tensor", "Unary", "Binary", "Reduction",
            "Substitution", "Align", "Finitary", "Contract", "Arange"}

\* None, where an object identity is expected
NoObject == 0

----------------------------------------------------------------------------
(* Sequence helpers.                                                       *)

Range(s) == {s[i] : i \in 1..Len(s)}

NoDup(s) == \A i, j \in 1..Len(s) : s[i] = s[j] => i = j

----------------------------------------------------------------------------
(* OrderedDict schemas: a sequence of <<dim, size>> pairs.                 *)

SchemaOf(dims, shape) == [i \in 1..Len(dims) |-> <<dims[i], shape[i]>>]

SchemaDims(s) == [i \in 1..Len(s) |-> s[i][1]]

SchemaShape(s) == [i \in 1..Len(s) |-> s[i][2]]

SchemaHas(s, d) == \E i \in 1..Len(s) : s[i][1] = d

SchemaGet(s, d, default) ==
    IF SchemaHas(s, d)
    THEN s[CHOOSE i \in 1..Len(s) : s[i][1] = d][2]
    ELSE default

\* schema[d] = v: an existing key keeps its place, a new key goes last
SchemaSet(s, d, v) ==
    IF SchemaHas(s, d)
    THEN [i \in 1..Len(s) |-> IF s[i][1] = d THEN <<d, v>> ELSE s[i]]
    ELSE Append(s, <<d, v>>)

RECURSIVE SchemaUpdate(_, _)
SchemaUpdate(s, t) ==
    IF t = <<>> THEN s
    ELSE SchemaUpdate(SchemaSet(s, Head(t)[1], Head(t)[2]), Tail(t))

SchemaDel(s, d) == LET Keep(p) == p[1] # d IN SelectSeq(s, Keep)

----------------------------------------------------------------------------
(* Funsor.__init__ and the __init__ of each variant.  Each takes the       *)
(* canonical args and the heap and yields [ok, dims, shape]; ok is FALSE   *)
(* when an assertion of the constructor fails.  The isinstance/callable    *)
(* assertions hold of every input the model draws.                         *)

\* Funsor.__init__ without `assert len(set(dims)) == len(dims)`
Funsor__init__Unchecked(dims, shape) ==
    [ok    |-> Len(dims) = Len(shape),
     dims  |-> dims,
     shape |-> shape]

Funsor__init__(dims, shape) ==
    [ok    |-> NoDup(dims) /\ Len(dims) = Len(shape),
     dims  |-> dims,
     shape |-> shape]

SchemaOfObj(h, x) == SchemaOf(h[x].dims, h[x].shape)

InitFromSchema(ok, schema) ==
    IF ok THEN Funsor__init__(SchemaDims(schema), SchemaShape(schema))
    ELSE [ok |-> FALSE, dims |-> <<>>, shape |-> <<>>]

Variable__init__(h, args) == Funsor__init__(<<args[1]>>, <<args[2]>>)

Tensor__init__(h, args) == Funsor__init__(args[1], args[2].shape)

Unary__init__(h, args) == Funsor__init__(h[args[2]].dims, h[args[2]].shape)

Binary__init__(h, args) ==
    InitFromSchema(TRUE, SchemaUpdate(SchemaOfObj(h, args[2]), SchemaOfObj(h, args[3])))

Reduction__init__(h, args) ==
    LET arg  == args[2]
        Keep(d) == d \notin args[3]
        dims == SelectSeq(h[arg].dims, Keep)
    IN  Funsor__init__(dims, [i \in 1..Len(dims) |-> SchemaGet(SchemaOfObj(h, arg), dims[i], 0)])

RECURSIVE DelAll(_, _)
DelAll(schema, subs) ==
    IF subs = <<>> THEN schema ELSE DelAll(SchemaDel(schema, Head(subs)[1]), Tail(subs))

RECURSIVE UpdateAll(_, _, _)
UpdateAll(h, schema, subs) ==
    IF subs = <<>> THEN schema
    ELSE UpdateAll(h, SchemaUpdate(schema, SchemaOfObj(h, Head(subs)[2])), Tail(subs))

\* Substitution.__init__ without the `del schema[dim]` loop
Substitution__init__NoDel(h, args) ==
    LET arg  == args[1]
        subs == args[2]
        bound == [i \in 1..Len(subs) |-> subs[i][1]]
        ok == (\A i \in 1..Len(subs) : bound[i] \in Range(h[arg].dims)) /\ NoDup(bound)
    IN  InitFromSchema(ok, UpdateAll(h, SchemaOfObj(h, arg), subs))

Substitution__init__(h, args) ==
    LET arg  == args[1]
        subs == args[2]
        bound == [i \in 1..Len(subs) |-> subs[i][1]]
        \* assert dim in arg.dims; a second `del schema[dim]` raises KeyError
        ok == (\A i \in 1..Len(subs) : bound[i] \in Range(h[arg].dims)) /\ NoDup(bound)
    IN  InitFromSchema(ok, UpdateAll(h, DelAll(SchemaOfObj(h, arg), subs), subs))

Align__init__(h, args) ==
    LET arg == args[1]
        dims == args[2]
        shape == args[3]
        n == IF Len(dims) < Len(shape) THEN Len(dims) ELSE Len(shape)   \* zip
        ok == \A i \in 1..n : SchemaGet(SchemaOfObj(h, arg), dims[i], shape[i]) = shape[i]
    IN  IF ok THEN Funsor__init__(dims, shape)
        ELSE [ok |-> FALSE, dims |-> <<>>, shape |-> <<>>]

RECURSIVE UnionSchemas(_, _, _)
UnionSchemas(h, schema, operands) ==
    IF operands = <<>> THEN schema
    ELSE UnionSchemas(h, SchemaUpdate(schema, SchemaOfObj(h, Head(operands))), Tail(operands))

\* Finitary is imported from funsor.terms by the engines but is not defined
\* in the terms.py at hand: the n-ary generalisation of Binary.
Finitary__init__(h, args) == InitFromSchema(TRUE, UnionSchemas(h, <<>>, args[2]))

\* Arange.__init__(name, size): a Tensor over (name,) wrapping torch.arange(size)
Arange__init__(h, args) == Funsor__init__(<<args[1]>>, <<args[2]>>)

\* a Python value passed where a dim name is expected: a str or a frozenset
PyStr(name) == [type |-> "str", name |-> name, elems |-> {}]
PyFrozenset(elems) == [type |-> "frozenset", name |-> "", elems |-> elems]

\* `dim in dims` on a tuple of names: found by equality with an element, and
\* a frozenset equals no str
PyIn(dim, dims) == dim.type = "str" /\ dim.name \in Range(dims)

\* Contract.__init__(sum_op, prod_op, lhs, rhs, dim)
Contract__init__(h, args) ==
    LET lhs == args[3]
        rhs == args[4]
        dim == args[5]
        ok == PyIn(dim, h[lhs].dims) /\ PyIn(dim, h[rhs].dims)
        schema == SchemaUpdate(SchemaOfObj(h, lhs), SchemaOfObj(h, rhs))
    IN  InitFromSchema(ok, SchemaDel(schema, dim.name))

Class__init__(h, cls, args) ==
    CASE cls = "Variable"     -> Variable__init__(h, args)
      [] cls = "Tensor"       -> Tensor__init__(h, args)
      [] cls = "Unary"        -> Unary__init__(h, args)
      [] cls = "Binary"       -> Binary__init__(h, args)
      [] cls = "Reduction"    -> Reduction__init__(h, args)
      [] cls = "Substitution" -> Substitution__init__(h, args)
      [] cls = "Align"        -> Align__init__(h, args)
      [] cls = "Finitary"     -> Finitary__init__(h, args)
      [] cls = "Contract"     -> Contract__init__(h, args)
      [] cls = "Arange"       -> Arange__init__(h, args)

\* inspect.getargspec(cls.__init__)[0][1:]
InitArgNames(cls) ==
    CASE cls = "Variable"     -> <<"name", "size">>
      [] cls = "Tensor"       -> <<"dims", "data">>
      [] cls = "Unary"        -> <<"op", "arg">>
      [] cls = "Binary"       -> <<"op", "lhs", "rhs">>
      [] cls = "Reduction"    -> <<"op", "arg", "reduce_dims">>
      [] cls = "Substitution" -> <<"arg", "subs">>
      [] cls = "Align"        -> <<"arg", "dims", "shape">>
      [] cls = "Finitary"     -> <<"op", "operands">>
      [] cls = "Contract"     -> <<"sum_op", "prod_op", "lhs", "rhs", "dim">>
      [] cls = "Arange"       -> <<"name", "size">>

\* the funsors an instance refers to
Children(node) ==
    CASE node.cls = "Unary"        -> {node.args[2]}
      [] node.cls = "Binary"       -> {node.args[2], node.args[3]}
      [] node.cls = "Reduction"    -> {node.args[2]}
      [] node.cls = "Substitution" -> {node.args[1]} \cup {node.args[2][i][2] : i \in 1..Len(node.args[2])}
      [] node.cls = "Align"        -> {node.args[1]}
      [] node.cls = "Finitary"     -> Range(node.args[2])
      [] node.cls = "Contract"     -> {node.args[3], node.args[4]}
      [] OTHER                     -> {}

----------------------------------------------------------------------------
(* ConsHashedMeta.__call__.  A state st is [heap, cache, nextId, nextData];*)
(* a result is [st, ok, val].                                              *)

St(h, c, n, d) == [heap |-> h, cache |-> c, nextId |-> n, nextData |-> d]

Raise(st) == [st |-> st, ok |-> FALSE, val |-> NoObject]

Return(st, x) == [st |-> st, ok |-> TRUE, val |-> x]

\* Convert kwargs to args: the positional ones, then kwargs[name] for each
\* remaining parameter name in declaration order.
KwargsToArgs(cls, pos, kw) ==
    IF DOMAIN kw = {} THEN pos
    ELSE LET names == InitArgNames(cls)
         IN  [i \in 1..Len(names) |-> IF i <= Len(pos) THEN pos[i] ELSE kw[names[i]]]

CacheHas(c, cls, args) == args \in DOMAIN c[cls]

\* ConsHashedMeta.__call__ without the `if key in cls._cache` lookup
ConsHashedMeta__call__Uncached(st, cls, pos, kw) ==
    LET args == KwargsToArgs(cls, pos, kw)
        r == Class__init__(st.heap, cls, args)
        id == st.nextId
    IN  IF ~r.ok THEN Raise(st)
        ELSE Return([st EXCEPT
                 !.heap = (id :> [cls |-> cls, args |-> args,
                                  dims |-> r.dims, shape |-> r.shape]) @@ @,
                 !.cache[cls] = (args :> id) @@ @,
                 !.nextId = id + 1], id)

ConsHashedMeta__call__(st, cls, pos, kw) ==
    LET args == KwargsToArgs(cls, pos, kw)
    IN  IF CacheHas(st.cache, cls, args)
        THEN Return(st, st.cache[cls][args])
        ELSE LET r == Class__init__(st.heap, cls, args)
                 id == st.nextId
             IN  IF ~r.ok THEN Raise(st)
                 ELSE Return([st EXCEPT
                          !.heap = (id :> [cls |-> cls, args |-> args,
                                           dims |-> r.dims, shape |-> r.shape]) @@ @,
                          !.cache[cls] = (args :> id) @@ @,
                          !.nextId = id + 1], id)

\* a constructor call written with positional arguments only
New(st, cls, args) == ConsHashedMeta__call__(st, cls, args, <<>>)

----------------------------------------------------------------------------
(* Reclamation: _cache is a WeakValueDictionary, so an instance nobody     *)
(* refers to leaves the heap and the cache with it.                        *)

RECURSIVE Reach(_, _)
Reach(h, S) ==
    LET T == S \cup UNION {Children(h[x]) : x \in S}
    IN  IF T = S THEN S ELSE Reach(h, T)

Collect(st, roots) ==
    LET live == Reach(st.heap, roots)
    IN  [st EXCEPT
           !.heap  = [x \in live |-> st.heap[x]],
           !.cache = [c \in Classes |->
                        [a \in {k \in DOMAIN st.cache[c] : st.cache[c][k] \in live}
                           |-> st.cache[c][a]]]]

----------------------------------------------------------------------------
(* Dense data.  The torch tensor a Tensor wraps is [did, shape, val]: its  *)
(* identity, its shape and its entries, val[idx] for each index tuple idx  *)
(* (0-based, one position per axis).                                       *)

MaxValue == 1

Indices(shape) ==
    LET top == IF shape = <<>> THEN 0
               ELSE CHOOSE m \in Range(shape) : \A n \in Range(shape) : n <= m
    IN  {idx \in [1..Len(shape) -> 0..top] : \A k \in 1..Len(shape) : idx[k] < shape[k]}

\* every torch tensor of a shape with entries in 0..MaxValue
DataOf(did, shape) ==
    {[did |-> did, shape |-> shape, val |-> v] : v \in [Indices(shape) -> 0..MaxValue]}

\* isinstance(x, Tensor): Tensor or its subclass Arange
IsTensor(h, x) == h[x].cls \in {"Tensor", "Arange"}

\* x.data: the wrapped torch tensor; an Arange wraps torch.arange(size),
\* which no other term shares
TensorData(h, x) ==
    IF h[x].cls = "Arange"
    THEN [did |-> 0, shape |-> h[x].shape,
          val |-> [idx \in Indices(h[x].shape) |-> idx[1]]]
    ELSE h[x].args[2]

\* the sum of the values of a function with a finite domain
RECURSIVE SumFn(_)
SumFn(f) ==
    IF DOMAIN f = {} THEN 0
    ELSE LET x == CHOOSE y \in DOMAIN f : TRUE
         IN  f[x] + SumFn([y \in DOMAIN f \ {x} |-> f[y]])

PosOf(dims, d) == CHOOSE k \in 1..Len(dims) : dims[k] = d

\* the assignments of an index to each dim of a set, size(d) values each
Envs(D, size) ==
    IF D = {} THEN {<<>>}
    ELSE LET top == CHOOSE m \in {size[d] : d \in D} : \A d \in D : size[d] <= m
         IN  {a \in [D -> 0..top] : \A d \in D : a[d] < size[d]}

\* the entry of a tensor over dims at the assignment a
At(data, dims, a) == data.val[[k \in 1..Len(dims) |-> a[dims[k]]]]

----------------------------------------------------------------------------
(* reduce: Funsor.reduce and its overrides.  dims is the set of names      *)
(* passed by the caller.                                                   *)

\* the operators with a torch reduction (funsor.ops.REDUCE_OP_TO_TORCH)
REDUCE_OP_TO_TORCH == {"add", "logaddexp"}

Funsor_reduce(st, x, op, dims) ==
    LET d == dims \cap Range(st.heap[x].dims)
    IN  IF d = {} THEN Return(st, x)
        ELSE New(st, "Reduction", <<op, x, d>>)

\* Reduction.reduce without `.intersection(self.dims)`
Reduction_reduceUnclipped(st, x, op, dims) ==
    LET self == st.heap[x]
    IN  IF op = self.args[1]
        THEN New(st, "Reduction", <<op, self.args[2], self.args[3] \cup dims>>)
        ELSE Funsor_reduce(st, x, op, dims)

Reduction_reduce(st, x, op, dims) ==
    LET self == st.heap[x]
    IN  IF op = self.args[1]
        THEN \* Eagerly fuse reductions.
             New(st, "Reduction",
                 <<op, self.args[2], self.args[3] \cup (dims \cap Range(self.dims))>>)
        ELSE Funsor_reduce(st, x, op, dims)

\* torch computes a new tensor object: the kept axes, in order.  Where the
\* data model holds the entries and op is add, the entries are summed over
\* the reduced axes; a logaddexp result is real and its entries are not held.
Tensor_reduce(st, x, op, dims) ==
    LET self == st.heap[x]
        d == Range(self.dims) \cap dims
        keep == {i \in 1..Len(self.dims) : self.dims[i] \notin d}
        Kept(i) == i \in keep
        pos == SelectSeq([i \in 1..Len(self.dims) |-> i], Kept)
        kept == [k \in 1..Len(pos) |-> self.dims[pos[k]]]
        shape == [k \in 1..Len(pos) |-> self.shape[pos[k]]]
        old == TensorData(st.heap, x)
        size == [e \in d |-> self.shape[PosOf(self.dims, e)]]
        Here(idx) == [e \in Range(kept) |-> idx[PosOf(kept, e)]]
        data == IF "val" \in DOMAIN old /\ op = "add"
                THEN [did |-> st.nextData, shape |-> shape,
                      val |-> [idx \in Indices(shape) |->
                                 SumFn([a \in Envs(d, size) |->
                                          At(old, self.dims, a @@ Here(idx))])]]
                ELSE [did |-> st.nextData, shape |-> shape]
    IN  IF op \in REDUCE_OP_TO_TORCH
        THEN IF d = {} THEN Return(st, x)
             ELSE New([st EXCEPT !.nextData = @ + 1], "Tensor", <<kept, data>>)
        ELSE Funsor_reduce(st, x, op, dims)

RECURSIVE Reduce(_, _, _, _)
Reduce(st, x, op, dims) ==
    LET cls == st.heap[x].cls
    IN  CASE cls = "Reduction" -> Reduction_reduce(st, x, op, dims)
          [] cls \in {"Tensor", "Arange"} -> Tensor_reduce(st, x, op, dims)
          [] cls = "Align"     -> Reduce(st, st.heap[x].args[1], op, dims)   \* Align.reduce
          [] OTHER             -> Funsor_reduce(st, x, op, dims)

----------------------------------------------------------------------------
(* The client of the term model: constructor calls, written positionally   *)
(* or by keyword, reduce calls, and dropping a reference.                  *)

NoCall == [m |-> "none"]

NoRet == [ok |-> TRUE, val |-> NoObject, val2 |-> NoObject]

\* no optimize_reduction is running
NoFrame == [pc |-> "none"]

\* a value in a queue: tag "arg" is the k-th argument of the x-th scheduled
\* call, "result" what the x-th invocation returned, "term" the funsor x,
\* "field" the k-th constructor argument of the funsor x, "none" is None
Val(tag, x, k) == [tag |-> tag, x |-> x, k |-> k]

NoValue == Val("none", 0, 0)

\* no trampoline scope was ever entered
TrampolineIdle ==
    /\ schedule = <<>>
    /\ args_queue = <<>>
    /\ kwargs_queue = <<>>
    /\ returnvalue = NoValue
    /\ scope = [pc |-> "out", failure |-> "none"]
    /\ log = <<>>
    /\ stack = <<>>

Now == St(heap, cache, nextId, nextData)

Becomes(st) ==
    /\ heap' = st.heap
    /\ cache' = st.cache
    /\ nextId' = st.nextId
    /\ nextData' = st.nextData

Empty == St(<<>>, [c \in Classes |-> <<>>], 1, 1)

\* The client starts out holding two leaves: Variable('i', 2) and a Tensor
\* over ('i', 'j') wrapping a 2x3 torch tensor.
Leaves ==
    LET vi == New(Empty, "Variable", <<"i", 2>>)
        t  == New([vi.st EXCEPT !.nextData = 2], "Tensor",
                  <<(<<"i", "j">>), [did |-> 1, shape |-> <<2, 3>>]>>)
    IN  t.st

InitTerms ==
    /\ heap = Leaves.heap
    /\ cache = Leaves.cache
    /\ nextId = Leaves.nextId
    /\ nextData = Leaves.nextData
    /\ held = DOMAIN Leaves.heap
    /\ call = NoCall
    /\ ret = NoRet
    /\ opt = NoFrame
    /\ TrampolineIdle

Allocated(st) == st.nextId - Leaves.nextId

\* cls(*args[:npos], **{name: value for the remaining parameters})
Construct(cls, args, npos, data) ==
    LET names == InitArgNames(cls)
        pos == SubSeq(args, 1, npos)
        kw == [n \in {names[i] : i \in (npos + 1)..Len(names)} |->
                 args[CHOOSE i \in 1..Len(names) : names[i] = n]]
        r == ConsHashedMeta__call__([Now EXCEPT !.nextData = @ + data], cls, pos, kw)
    IN  /\ Allocated(r.st) <= MaxObjects
        /\ Becomes(IF r.ok THEN r.st ELSE Now)
        /\ held' = IF r.ok THEN held \cup {r.val} ELSE held
        /\ call' = [m |-> "new", cls |-> cls, args |-> args, npos |-> npos]
        /\ ret' = [ok |-> r.ok, val |-> r.val, val2 |-> NoObject]
        /\ UNCHANGED engineVars

\* all arguments positional; for the two-parameter classes also the first
\* positional and the second by keyword
Styles(cls) ==
    LET n == Len(InitArgNames(cls))
    IN  IF cls \in {"Variable", "Unary"} THEN {n - 1, n} ELSE {n}

NewVariable ==
    \E name \in DimNames, npos \in Styles("Variable") :
        Construct("Variable", <<name, 2>>, npos, 0)

\* the torch tensors that held Tensors wrap
HeldData == {heap[x].args[2] : x \in {y \in held : heap[y].cls = "Tensor"}}

NewTensor ==
    \E dims \in DimTuples, data \in HeldData, npos \in Styles("Tensor") :
        Construct("Tensor", <<dims, data>>, npos, 0)

NewUnary ==
    \E op \in UnaryOps, arg \in held, npos \in Styles("Unary") :
        Construct("Unary", <<op, arg>>, npos, 0)

NewBinary ==
    \E op \in BinaryOps, lhs \in held, rhs \in held, npos \in Styles("Binary") :
        Construct("Binary", <<op, lhs, rhs>>, npos, 0)

NewReduction ==
    \E op \in Ops, arg \in held, reduce_dims \in ReduceSets,
       npos \in Styles("Reduction") :
        Construct("Reduction", <<op, arg, reduce_dims>>, npos, 0)

\* a dim of arg is bound to one of the leaves
NewSubstitution ==
    \E arg \in held, dim \in DimNames, value \in DOMAIN Leaves.heap,
       npos \in Styles("Substitution") :
        Construct("Substitution", <<arg, <<(<<dim, value>>)>> >>, npos, 0)

NewAlign ==
    \E arg \in held, dims \in DimTuples, npos \in Styles("Align") :
        Construct("Align", <<arg, dims, [k \in 1..Len(dims) |-> DimSize(dims[k])]>>, npos, 0)

\* the client drops its reference to a term it built; what nothing refers to
\* any more is reclaimed (the two leaves are kept for the whole session)
Release ==
    \E x \in held \ DOMAIN Leaves.heap :
        /\ Becomes(Collect(Now, held \ {x}))
        /\ held' = held \ {x}
        /\ call' = [m |-> "del"]
        /\ ret' = NoRet
        /\ UNCHANGED engineVars

NextTerms ==
    \/ NewVariable
    \/ NewTensor
    \/ NewUnary
    \/ NewBinary
    \/ NewReduction
    \/ NewSubstitution
    \/ NewAlign
    \/ Release

Spec == InitTerms /\ [][NextTerms]_vars

(***************************************************************************)
(* Properties of term construction.                                        *)
(***************************************************************************)

SameKey(x, y) == heap[x].cls = heap[y].cls /\ heap[x].args = heap[y].args

\* the cache maps exactly the live instances, each under its own key
CacheExact ==
    /\ \A cls \in Classes : \A args \in DOMAIN cache[cls] :
          LET x == cache[cls][args]
          IN  x \in DOMAIN heap /\ heap[x].cls = cls /\ heap[x].args = args
    /\ \A x \in DOMAIN heap :
          CacheHas(cache, heap[x].cls, heap[x].args)
            /\ cache[heap[x].cls][heap[x].args] = x

\* a constructor call whose key is held by the cache returns the held
\* instance and creates nothing, whichever way its arguments were passed
HitReturnsHeld ==
    (call'.m = "new" /\ CacheHas(cache, call'.cls, call'.args))
        => (ret'.ok /\ ret'.val = cache[call'.cls][call'.args]
                   /\ heap' = heap /\ cache' = cache)

\* C7: the interning cache never holds two live instances with the same
\* (variant, canonical args) key, and a constructor call whose key is held
\* returns the held instance, for positional and for keyword arguments.
C7_OneInstancePerKey ==
    /\ [](CacheExact /\ \A x, y \in DOMAIN heap : SameKey(x, y) => x = y)
    /\ [][HitReturnsHeld]_termVars

\* after a term was built, Variable('i', size=2) is requested by keyword and
\* the call returns the Variable leaf that was built positionally
C7_Witness ==
    /\ call.m = "new" /\ call.cls = "Variable" /\ call.npos = 1
    /\ ret.ok /\ ret.val \in DOMAIN Leaves.heap
    /\ nextId > Leaves.nextId

\* the dims a constructor call declares explicitly
DeclaredDims(c) ==
    IF c.cls = "Tensor" THEN c.args[1]
    ELSE IF c.cls = "Align" THEN c.args[2]
    ELSE <<>>

WellFormed(x) ==
    NoDup(heap[x].dims) /\ Len(heap[x].shape) = Len(heap[x].dims)

DuplicateDimsRejected ==
    (call'.m = "new" /\ ~NoDup(DeclaredDims(call')))
        => (~ret'.ok /\ heap' = heap /\ cache' = cache /\ held' = held)

\* C10: every term has pairwise distinct dims and as many sizes as dims, and
\* a constructor call that declares a dim twice fails and yields no term.
C10_DistinctDims ==
    /\ [](\A x \in DOMAIN heap : WellFormed(x))
    /\ [][DuplicateDimsRejected]_termVars

\* a term was built, and then an Align declaring a dim twice was refused
C10_Witness ==
    /\ call.m = "new" /\ call.cls = "Align" /\ ~NoDup(call.args[2])
    /\ ~ret.ok
    /\ nextId > Leaves.nextId

----------------------------------------------------------------------------
(* Reductions: x.reduce(op, dims) called by the client, next to the direct *)
(* Reduction constructor, and the two sides of the fusion law evaluated    *)
(* within one expression.                                                  *)

MaxReduced == 1

\* y = x.reduce(op, dims)
CallReduce ==
    \E x \in held, op \in Ops, dims \in SUBSET DimNames :
        LET r == Reduce(Now, x, op, dims)
        IN  /\ Allocated(r.st) <= MaxReduced
            /\ Becomes(r.st)
            /\ held' = held \cup {r.val}
            /\ call' = [m |-> "reduce", x |-> x, op |-> op, dims |-> dims]
            /\ ret' = [ok |-> r.ok, val |-> r.val, val2 |-> NoObject]
            /\ UNCHANGED engineVars

\* x.reduce(op, A).reduce(op, B) is x.reduce(op, A | B): both sides are
\* evaluated and compared; the client keeps neither, so whatever the
\* expression built is reclaimed and its addresses are free again
ReduceFusion ==
    \E x \in held, op \in Ops, A \in SUBSET DimNames, B \in SUBSET DimNames :
        LET r1 == Reduce(Now, x, op, A)
            lhs == Reduce(r1.st, r1.val, op, B)
            rhs == Reduce(lhs.st, x, op, A \cup B)
        IN  /\ UNCHANGED <<heap, cache, nextId, nextData, held>>
            /\ call' = [m |-> "fusion", x |-> x, op |-> op, A |-> A, B |-> B]
            /\ ret' = [ok |-> TRUE, val |-> lhs.val, val2 |-> rhs.val]
            /\ UNCHANGED engineVars

\* Reduction(op, arg, reduce_dims) written out by the client
DirectReduction ==
    \E op \in Ops, arg \in held, reduce_dims \in ReduceSets :
        LET r == New(Now, "Reduction", <<op, arg, reduce_dims>>)
        IN  /\ Allocated(r.st) <= MaxReduced
            /\ Becomes(r.st)
            /\ held' = held \cup {r.val}
            /\ call' = [m |-> "new", cls |-> "Reduction",
                        args |-> <<op, arg, reduce_dims>>, npos |-> 3]
            /\ ret' = [ok |-> r.ok, val |-> r.val, val2 |-> NoObject]
            /\ UNCHANGED engineVars

\* a lazy wrap and an aligned view to reduce
WrapUnary ==
    \E arg \in held :
        LET r == New(Now, "Unary", <<"neg", arg>>)
        IN  /\ Allocated(r.st) <= MaxReduced
            /\ Becomes(r.st)
            /\ held' = held \cup {r.val}
            /\ call' = [m |-> "new", cls |-> "Unary", args |-> <<"neg", arg>>, npos |-> 2]
            /\ ret' = [ok |-> r.ok, val |-> r.val, val2 |-> NoObject]
            /\ UNCHANGED engineVars

WrapAlign ==
    \E arg \in held :
        LET dims == <<"j", "i">>
            args == <<arg, dims, [k \in 1..Len(dims) |-> DimSize(dims[k])]>>
            r == New(Now, "Align", args)
        IN  /\ Allocated(r.st) <= MaxReduced
            /\ Becomes(IF r.ok THEN r.st ELSE Now)
            /\ held' = IF r.ok THEN held \cup {r.val} ELSE held
            /\ call' = [m |-> "new", cls |-> "Align", args |-> args, npos |-> 3]
            /\ ret' = [ok |-> r.ok, val |-> r.val, val2 |-> NoObject]
            /\ UNCHANGED engineVars

NextReduce ==
    \/ CallReduce
    \/ ReduceFusion
    \/ DirectReduction
    \/ WrapUnary
    \/ WrapAlign
    \/ Release

SpecReduce == InitTerms /\ [][NextReduce]_vars

\* the term whose reduce method a reduce call on x ends up in
RECURSIVE ReduceTarget(_)
ReduceTarget(x) ==
    IF heap[x].cls = "Align" THEN ReduceTarget(heap[x].args[1]) ELSE x

\* x.reduce(op, dims) is computed by torch and wrapped in a new Tensor
ReducesEagerly(x, op, dims) ==
    /\ heap[ReduceTarget(x)].cls = "Tensor"
    /\ op \in REDUCE_OP_TO_TORCH
    /\ dims \cap Range(heap[ReduceTarget(x)].dims) # {}

\* C8 as stated: for every term x, x.reduce(op, A).reduce(op, B) is the
\* same instance as x.reduce(op, A | B).
C8_FusionAnyTerm ==
    call.m = "fusion" => ret.val = ret.val2

\* C8: for every term x on which x.reduce(op, A | B) is not computed eagerly
\* by a Tensor, x.reduce(op, A).reduce(op, B) is the same instance as
\* x.reduce(op, A | B), whether A and B overlap or name dims x lacks.
C8_FusionLazy ==
    (call.m = "fusion" /\ ~ReducesEagerly(call.x, call.op, call.A \cup call.B))
        => ret.val = ret.val2

\* overlapping A and B, B naming a dim already reduced, on a lazy term with
\* dims i and j: both sides are the one Reduction over {i, j}
C8_Witness ==
    /\ call.m = "fusion" /\ heap[call.x].cls = "Unary"
    /\ call.A = {"i"} /\ call.B = {"i", "j"}
    /\ ret.val = ret.val2 /\ ret.val \notin DOMAIN heap

\* C9: no term is a Reduction whose argument is a Reduction with the same
\* operator.
C9_NoNestedReduction ==
    \A x \in DOMAIN heap :
        (heap[x].cls = "Reduction" /\ heap[heap[x].args[2]].cls = "Reduction")
            => heap[heap[x].args[2]].args[1] # heap[x].args[1]

----------------------------------------------------------------------------
(* optimize_reduction: Reduction(op, Finitary(f, operands), D) is rebuilt  *)
(* as a tree of pairwise Finitary/Reduction steps along a contraction path.*)

MaxOperands == 3

\* the operands the canonical input is made of: Tensors over ('i',), ('j',)
\* and ('i', 'j'), each wrapping its own torch tensor
OptLeaves ==
    LET ti  == New([Empty EXCEPT !.nextData = 4], "Tensor",
                   <<(<<"i">>), [did |-> 1, shape |-> <<2>>]>>)
        tj  == New(ti.st, "Tensor", <<(<<"j">>), [did |-> 2, shape |-> <<3>>]>>)
        tij == New(tj.st, "Tensor", <<(<<"i", "j">>), [did |-> 3, shape |-> <<2, 3>>]>>)
    IN  tij.st

\* the dim names that occur in the operands of an optimize_reduction
CounterKeys == DimNames \cup {"k", "l"}

\* collections.Counter: a count per key, 0 for a key never touched.  The
\* keys that occur are dim names d and pairs (d, 1).
EmptyCounter == [dim |-> [d \in CounterKeys |-> 0], pair |-> [d \in CounterKeys |-> 0]]

\* Counter.update({d: 1 for d in input})
CounterUpdate(c, input) ==
    [c EXCEPT !.dim = [d \in CounterKeys |-> IF d \in input THEN @[d] + 1 ELSE @[d]]]

\* Counter.subtract({d: 1 for d in dims}): the count of each dim goes down
CounterSubtractByDim(c, dims) ==
    [c EXCEPT !.dim = [d \in CounterKeys |-> IF d \in dims THEN @[d] - 1 ELSE @[d]]]

\* Counter.subtract((d, 1) for d in dims): subtract of an iterable counts
\* its elements, and the elements are the pairs (d, 1)
CounterSubtract(c, dims) ==
    [c EXCEPT !.pair = [d \in CounterKeys |-> IF d \in dims THEN @[d] - 1 ELSE @[d]]]

RECURSIVE CounterOfInputs(_, _)
CounterOfInputs(c, inputs) ==
    IF inputs = <<>> THEN c
    ELSE CounterOfInputs(CounterUpdate(c, Head(inputs)), Tail(inputs))

DimsOf(h, x) == Range(h[x].dims)

\* path_end_reduce_dims without the `if reduce_dim_counter[d] == 0` filter
PathEndReduceDimsUnguarded(c, reduce_dims, dims) == reduce_dims \cap dims

\* frozenset(d for d in reduce_dims & (ta.dims | tb.dims) if counter[d] == 0)
PathEndReduceDims(c, reduce_dims, dims) ==
    {d \in reduce_dims \cap dims : c.dim[d] = 0}

\* final_reduce_dims left empty: no trailing Reduction
FinalReduceDimsSkipped(c, reduce_dims) == {}

\* final_reduce_dims with `count > 1` for `count > 0`
FinalReduceDimsRepeated(c, reduce_dims) ==
    {d \in CounterKeys : c.dim[d] > 1} \cap reduce_dims

\* frozenset(d for (d, count) in counter.items() if count > 0) & reduce_dims
FinalReduceDims(c, reduce_dims) ==
    {d \in CounterKeys : c.dim[d] > 0} \cap reduce_dims

NoStep == [a |-> 0, b |-> 0, reduced |-> {}, folded |-> {}, dims |-> {}]

\* the handler is entered with the fields (op, arg, reduce_dims) of a
\* Reduction whose arg is a Finitary over one or more of the operands, or
\* is one of the operands itself
InitOptimize ==
    /\ \E reduce_dims \in SUBSET DimNames, finitary \in BOOLEAN,
          operands \in UNION {[1..n -> DOMAIN OptLeaves.heap] : n \in 1..MaxOperands} :
          LET arg == IF finitary THEN New(OptLeaves, "Finitary", <<"mul", operands>>)
                     ELSE Return(OptLeaves, operands[1])
              st == arg.st
          IN  /\ heap = st.heap
              /\ cache = st.cache
              /\ nextId = st.nextId
              /\ nextData = st.nextData
              /\ held = DOMAIN st.heap
              /\ opt = [pc |-> "call", op |-> "add", arg |-> arg.val,
                        reduce_dims |-> reduce_dims,
                        inputs |-> <<>>, operands |-> <<>>,
                        reduce_dim_counter |-> EmptyCounter,
                        folded |-> <<>>, step |-> NoStep,
                        path_end |-> NoObject, result |-> NoObject]
    /\ call = NoCall
    /\ ret = NoRet
    /\ TrampolineIdle

\* if not isinstance(arg, Finitary): return Reduction(op, arg, reduce_dims)
Reflect ==
    /\ opt.pc = "call"
    /\ heap[opt.arg].cls # "Finitary"
    /\ LET r == New(Now, "Reduction", <<opt.op, opt.arg, opt.reduce_dims>>)
       IN  /\ Becomes(r.st)
           /\ held' = held \cup {r.val}
           /\ opt' = [opt EXCEPT !.pc = "done", !.result = r.val]
    /\ UNCHANGED <<call, ret, trampVars>>

\* inputs, the reduce_dim counter and the working list of operands
BuildInputs ==
    /\ opt.pc = "call"
    /\ heap[opt.arg].cls = "Finitary"
    /\ LET operands == heap[opt.arg].args[2]
           inputs == [k \in 1..Len(operands) |-> DimsOf(heap, operands[k])]
       IN  opt' = [opt EXCEPT !.pc = "path",
                              !.inputs = inputs,
                              !.operands = operands,
                              !.reduce_dim_counter = CounterOfInputs(EmptyCounter, inputs),
                              !.folded = [k \in 1..Len(operands) |-> {k}]]
    /\ UNCHANGED <<termVars, trampVars>>

\* the sequence s without its element at position k (list.pop(k))
Pop(s, k) == [i \in 1..(Len(s) - 1) |-> IF i < k THEN s[i] ELSE s[i + 1]]

\* one `for (a, b) in path` iteration; the path is any sequence of pairs
\* a < b of positions in the working list (positions counted from 1 here)
PathStep ==
    /\ opt.pc = "path"
    /\ Len(opt.operands) > 1
    /\ \E a \in 1..Len(opt.operands), b \in 1..Len(opt.operands) :
          /\ a < b
          /\ LET ta == opt.operands[a]
                 tb == opt.operands[b]
                 fin == New(Now, "Finitary", <<heap[opt.arg].args[1], <<ta, tb>> >>)
                 c1 == CounterSubtract(opt.reduce_dim_counter,
                                       opt.reduce_dims \cap DimsOf(heap, ta))
                 c2 == CounterSubtract(c1, opt.reduce_dims \cap DimsOf(heap, tb))
                 dims == DimsOf(heap, ta) \cup DimsOf(heap, tb)
                 path_end_reduce_dims == PathEndReduceDims(c2, opt.reduce_dims, dims)
                 path_end == New(fin.st, "Reduction",
                                 <<opt.op, fin.val, path_end_reduce_dims>>)
                 folded == opt.folded[a] \cup opt.folded[b]
             IN  /\ Becomes(path_end.st)
                 /\ held' = held \cup {fin.val, path_end.val}
                 /\ opt' = [opt EXCEPT
                       !.operands = [Pop(@, b) EXCEPT ![a] = path_end.val],
                       !.folded = [Pop(@, b) EXCEPT ![a] = folded],
                       !.reduce_dim_counter = c2,
                       !.path_end = path_end.val,
                       !.step = [a |-> a, b |-> b, reduced |-> path_end_reduce_dims,
                                 folded |-> folded, dims |-> dims]]
    /\ UNCHANGED <<call, ret, trampVars>>

\* reduce any remaining dims, if necessary, and return.  With a single
\* operand no pairwise step ran: the path of one input is empty or the
\* single step (0,), so either `for (a, b) in path` fails to unpack or
\* path_end is read before it was ever assigned
FinalReduce ==
    /\ opt.pc = "path"
    /\ Len(opt.operands) = 1
    /\ IF opt.path_end = NoObject
       THEN /\ opt' = [opt EXCEPT !.pc = "raised"]
            /\ UNCHANGED termVars
       ELSE LET final_reduce_dims == FinalReduceDims(opt.reduce_dim_counter, opt.reduce_dims)
                r == IF final_reduce_dims # {}
                     THEN New(Now, "Reduction", <<opt.op, opt.path_end, final_reduce_dims>>)
                     ELSE Return(Now, opt.path_end)
            IN  /\ Becomes(r.st)
                /\ held' = held \cup {r.val}
                /\ opt' = [opt EXCEPT !.pc = "done", !.result = r.val]
    /\ UNCHANGED <<call, ret, trampVars>>

NextOptimize ==
    \/ Reflect
    \/ BuildInputs
    \/ PathStep
    \/ FinalReduce

SpecOptimize == InitOptimize /\ [][NextOptimize]_vars

\* the original operands (by position) that mention d
Mentioning(d) == {k \in 1..Len(opt.inputs) : d \in opt.inputs[k]}

\* C1: a pairwise step reduces a dim d of D only if every original operand
\* that mentions d is folded into the step's combined term.
C1_NoEarlyReduction ==
    \A d \in opt.step.reduced : Mentioning(d) \subseteq opt.step.folded

\* a step has combined operands that mention a dim d of D while another
\* operand mentioning d is still outside, and the step left d alone
C1_Witness ==
    /\ opt.pc = "path"
    /\ \E d \in opt.reduce_dims \cap opt.step.dims :
          /\ ~(Mentioning(d) \subseteq opt.step.folded)
          /\ d \notin opt.step.reduced

UnionOfInputs == UNION {opt.inputs[k] : k \in 1..Len(opt.inputs)}

\* C2: for two or more operands the returned term's free dims are the union
\* of the operands' dims minus D.
C2_FreeDims ==
    (opt.pc = "done" /\ Len(opt.inputs) >= 2)
        => DimsOf(heap, opt.result) = UnionOfInputs \ opt.reduce_dims

\* three operands, D meets their dims, and the term was returned
C2_Witness ==
    /\ opt.pc = "done" /\ Len(opt.inputs) = 3
    /\ opt.reduce_dims \cap UnionOfInputs # {}
    /\ UnionOfInputs \ opt.reduce_dims # {}
    /\ DimsOf(heap, opt.result) = UnionOfInputs \ opt.reduce_dims

\* C26: optimize_reduction on a Reduction whose arg is a Finitary with
\* exactly one operand returns a term whose free dims are the operand's
\* dims minus D, rather than failing; and when the arg is not a Finitary
\* it returns Reduction(op, arg, D) unchanged.
C26_SingleOperand ==
    opt.pc \in {"done", "raised"} =>
        /\ (heap[opt.arg].cls = "Finitary" /\ Len(heap[opt.arg].args[2]) = 1) =>
               /\ opt.pc = "done"
               /\ DimsOf(heap, opt.result)
                      = DimsOf(heap, heap[opt.arg].args[2][1]) \ opt.reduce_dims
        /\ heap[opt.arg].cls # "Finitary" =>
               /\ opt.pc = "done"
               /\ heap[opt.result].cls = "Reduction"
               /\ heap[opt.result].args = <<opt.op, opt.arg, opt.reduce_dims>>

\* the Reduction nodes of the returned tree that reduce d
ReducingNodes(d) ==
    {x \in Reach(heap, {opt.result}) : heap[x].cls = "Reduction" /\ d \in heap[x].args[3]}

\* C24: in the tree optimize_reduction returns for two or more operands,
\* every dim of D that occurs in some operand is in the reduced set of
\* exactly one Reduction node, for every operand list and contraction path.
C24_ReducedExactlyOnce ==
    (opt.pc = "done" /\ Len(opt.inputs) >= 2) =>
        \A d \in opt.reduce_dims \cap UnionOfInputs : Cardinality(ReducingNodes(d)) = 1

\* a dim of D shared by three operands, and a dim of D shared by the two
\* operands that were not combined with each other first
C24_Witness ==
    /\ opt.pc = "done"
    /\ Len(opt.inputs) = 3
    /\ \/ \E d \in opt.reduce_dims : Mentioning(d) = {1, 2, 3}
       \/ \E d \in opt.reduce_dims :
              /\ Mentioning(d) = {1, 3}
              /\ heap[heap[opt.result].args[2]].cls = "Finitary"
    /\ \A d \in opt.reduce_dims \cap UnionOfInputs : ReducingNodes(d) = {opt.result}

----------------------------------------------------------------------------
(* The trampoline: a scope is entered, its body sends TailCall messages,   *)
(* and on exit the scheduled steps are drained.  The steps are opaque      *)
(* functions that return a value or raise.  Handler.__enter__ and          *)
(* Handler.__exit__ (funsor.handlers) install and remove the handler and   *)
(* do not swallow an exception.                                            *)

MaxSteps == 3
MaxArgs == 2
MaxKwargs == 1
FnNames == {"f", "g"}
KwNames == <<"k1", "k2">>

termsUntouched ==
    UNCHANGED <<heap, cache, nextId, nextData, held, call, ret, opt, stack>>

InitTrampoline ==
    /\ heap = Leaves.heap
    /\ cache = Leaves.cache
    /\ nextId = Leaves.nextId
    /\ nextData = Leaves.nextData
    /\ held = DOMAIN Leaves.heap
    /\ call = NoCall
    /\ ret = NoRet
    /\ opt = NoFrame
    /\ TrampolineIdle

\* trampoline.__enter__
Enter ==
    /\ scope.pc \in {"out", "returned", "raised"}
    /\ schedule' = <<>>
    /\ args_queue' = <<>>
    /\ kwargs_queue' = <<>>
    /\ returnvalue' = NoValue
    /\ scope' = [pc |-> "body", failure |-> "none"]
    /\ log' = <<>>
    /\ termsUntouched

\* trampoline.process(TailCall): the body's _tail_call(fn, *args, **kwargs)
ProcessTailCall ==
    /\ scope.pc = "body"
    /\ Len(schedule) < MaxSteps
    /\ \E fn \in FnNames, nargs \in 0..MaxArgs, nkwargs \in 0..MaxKwargs :
          LET n == Len(schedule) + 1
              args == [k \in 1..nargs |-> Val("arg", n, k)]
              items == [k \in 1..nkwargs |->
                          [name |-> KwNames[k], val |-> Val("arg", n, nargs + k)]]
          IN  /\ schedule' = Append(schedule,
                                   [fn |-> fn, nargs |-> nargs, nkwargs |-> nkwargs])
              /\ args_queue' = args_queue \o args
              /\ kwargs_queue' = kwargs_queue \o items
    /\ UNCHANGED <<returnvalue, scope, log>>
    /\ termsUntouched

\* the body raises: __exit__ with an exception discards everything
BodyRaises ==
    /\ scope.pc = "body"
    /\ schedule' = <<>>
    /\ args_queue' = <<>>
    /\ kwargs_queue' = <<>>
    /\ returnvalue' = NoValue
    /\ scope' = [pc |-> "raised", failure |-> "body"]
    /\ UNCHANGED log
    /\ termsUntouched

\* the body returns: __exit__ with exc_type None starts the drain
BodyReturns ==
    /\ scope.pc = "body"
    /\ scope' = [pc |-> "drain", failure |-> "none"]
    /\ UNCHANGED <<schedule, args_queue, kwargs_queue, returnvalue, log>>
    /\ termsUntouched

\* self._schedule.pop() for self._schedule.pop(0)
NextScheduledNewest(sched) ==
    [step |-> sched[Len(sched)], rest |-> SubSeq(sched, 1, Len(sched) - 1)]

\* fn, nargs, nkwargs = self._schedule.pop(0)
NextScheduled(sched) == [step |-> Head(sched), rest |-> Tail(sched)]

\* queue.pop() for queue.pop(0)
PopFrontFromBack(q, n) ==
    [taken |-> SubSeq(q, Len(q) - n + 1, Len(q)), rest |-> SubSeq(q, 1, Len(q) - n)]

\* tuple(queue.pop(0) for i in range(n)), for n <= len(queue)
PopFront(q, n) == [taken |-> SubSeq(q, 1, n), rest |-> SubSeq(q, n + 1, Len(q))]

\* one iteration of `while self._schedule`; pop(0) on an emptied queue
\* raises IndexError after the queue was emptied, and fn may raise
DrainStep ==
    /\ scope.pc = "drain"
    /\ schedule # <<>>
    /\ LET nxt == NextScheduled(schedule)
           s == nxt.step
       IN  /\ schedule' = nxt.rest
           /\ returnvalue' = returnvalue
           /\ IF Len(args_queue) < s.nargs
              THEN /\ args_queue' = <<>>
                   /\ kwargs_queue' = kwargs_queue
                   /\ log' = log
                   /\ scope' = [pc |-> "raised", failure |-> "underflow"]
              ELSE IF Len(kwargs_queue) < s.nkwargs
              THEN /\ args_queue' = PopFront(args_queue, s.nargs).rest
                   /\ kwargs_queue' = <<>>
                   /\ log' = log
                   /\ scope' = [pc |-> "raised", failure |-> "underflow"]
              ELSE LET a == PopFront(args_queue, s.nargs)
                       kw == PopFront(kwargs_queue, s.nkwargs)
                   IN  \E raises \in BOOLEAN :
                          /\ log' = Append(log, [fn |-> s.fn, args |-> a.taken,
                                                 kwargs |-> kw.taken, ok |-> ~raises])
                          /\ kwargs_queue' = kw.rest
                          /\ args_queue' = IF raises THEN a.rest
                                           ELSE Append(a.rest, Val("result", Len(log) + 1, 0))
                          /\ scope' = IF raises
                                      THEN [pc |-> "raised", failure |-> "step"]
                                      ELSE scope
    /\ termsUntouched

\* after the loop: self._returnvalue = self._args_queue.pop(0), the assert,
\* and __call__ returning self._returnvalue
DrainEnd ==
    /\ scope.pc = "drain"
    /\ schedule = <<>>
    /\ IF args_queue = <<>>
       THEN /\ scope' = [pc |-> "raised", failure |-> "underflow"]
            /\ UNCHANGED <<args_queue, returnvalue>>
       ELSE /\ returnvalue' = Head(args_queue)
            /\ args_queue' = Tail(args_queue)
            /\ scope' = IF Tail(args_queue) = <<>> /\ kwargs_queue = <<>>
                        THEN [pc |-> "returned", failure |-> "none"]
                        ELSE [pc |-> "raised", failure |-> "assert"]
    /\ UNCHANGED <<schedule, kwargs_queue, log>>
    /\ termsUntouched

NextTrampoline ==
    \/ Enter
    \/ ProcessTailCall
    \/ BodyRaises
    \/ BodyReturns
    \/ DrainStep
    \/ DrainEnd

SpecTrampoline == InitTrampoline /\ [][NextTrampoline]_vars

\* a drain iteration invoked a step
Invoked == scope.pc = "drain" /\ Len(log') = Len(log) + 1

DrainsOldestFirst ==
    Invoked =>
        LET s == Head(schedule)
            e == log'[Len(log')]
            restArgs == SubSeq(args_queue, s.nargs + 1, Len(args_queue))
        IN  /\ schedule' = Tail(schedule)
            /\ e.fn = s.fn
            /\ e.args = SubSeq(args_queue, 1, s.nargs)
            /\ e.kwargs = SubSeq(kwargs_queue, 1, s.nkwargs)
            /\ kwargs_queue' = SubSeq(kwargs_queue, s.nkwargs + 1, Len(kwargs_queue))
            /\ e.ok => args_queue' = Append(restArgs, Val("result", Len(log'), 0))

\* C3: the drain invokes the oldest scheduled step, with exactly its
\* declared number of values taken from the front of the positional queue
\* and of the keyword queue, and appends its result to the back of the
\* positional queue.
C3_DrainOrder == [][DrainsOldestFirst]_vars

\* two steps were invoked, the second with two positional arguments and a
\* keyword argument, while a value was still queued behind them
C3_Witness ==
    /\ scope.pc = "drain"
    /\ Len(log) = 2
    /\ Len(log[2].args) = 2 /\ Len(log[2].kwargs) = 1
    /\ log[1].fn # log[2].fn
    /\ Len(args_queue) >= 2

\* C4: when the drain loop has run the scheduled steps, the work list is
\* empty, the positional queue holds exactly one value and the keyword
\* queue none.
C4_DrainLeavesOneValue ==
    (scope.pc = "drain" /\ schedule = <<>> /\ log # <<>>)
        => (Len(args_queue) = 1 /\ kwargs_queue = <<>>)

\* C5: once a failing step or a failing body has propagated its exception,
\* the work list and both queues are empty and no result is stored.
C5_FailureDiscardsAll ==
    (scope.pc = "raised" /\ scope.failure \in {"step", "body"})
        => (schedule = <<>> /\ args_queue = <<>> /\ kwargs_queue = <<>>
              /\ returnvalue = NoValue)

\* the positional arguments supplied when the n-th step was scheduled
SuppliedArgs(n, nargs) == [k \in 1..nargs |-> Val("arg", n, k)]

\* the keyword arguments supplied when the n-th step was scheduled
SuppliedKwargs(n, nargs, nkwargs) ==
    [k \in 1..nkwargs |-> [name |-> KwNames[k], val |-> Val("arg", n, nargs + k)]]

\* the positional arguments of the steps not yet run, from the i-th of the
\* work list on
RECURSIVE PendingArgsFrom(_)
PendingArgsFrom(i) ==
    IF i > Len(schedule) THEN <<>>
    ELSE SuppliedArgs(Len(log) + i, schedule[i].nargs) \o PendingArgsFrom(i + 1)

----------------------------------------------------------------------------
(* eval, the trampolined evaluator.  `eval` is one trampoline instance;    *)
(* every call eval(x) is trampoline.__call__: it enters the scope, runs    *)
(* the body on x and drains on exit.  The body evaluates the children of x *)
(* by calling eval on them before it sends its own TailCall.  With no     *)
(* other handler installed effectful(cls, cls) calls the constructor cls.  *)

MaxChain == 3

\* x wrapped in Unary or Substitution once per entry of kinds, innermost
\* first; a Substitution binds dim 'i' to the Variable leaf
RECURSIVE WrapChain(_, _, _)
WrapChain(st, x, kinds) ==
    IF kinds = <<>> THEN Return(st, x)
    ELSE LET r == IF Head(kinds) = "Unary"
                  THEN New(st, "Unary", <<"neg", x>>)
                  ELSE New(st, "Substitution", <<x, <<(<<"i", 1>>)>> >>)
         IN  WrapChain(r.st, r.val, Tail(kinds))

InitEval ==
    /\ \E n \in 0..MaxChain :
         \E kinds \in [1..n -> {"Unary", "Substitution"}] :
            LET r == WrapChain(Leaves, 2, kinds)
            IN  /\ heap = r.st.heap
                /\ cache = r.st.cache
                /\ nextId = r.st.nextId
                /\ nextData = r.st.nextData
                /\ held = {r.val}
                /\ call = [m |-> "eval", x |-> r.val]
    /\ ret = NoRet
    /\ opt = NoFrame
    /\ TrampolineIdle

\* the subterms the body passes to eval, in the order it evaluates them
EvalChildren(node) ==
    CASE node.cls = "Substitution" -> <<node.args[1], node.args[2][1][2]>>
      [] node.cls = "Unary"        -> <<node.args[2]>>
      [] node.cls = "Binary"       -> <<node.args[2], node.args[3]>>
      [] node.cls = "Reduction"    -> <<node.args[2]>>
      [] OTHER                     -> <<>>

\* the positional arguments of the body's _tail_call, given the values its
\* nested eval calls returned
TailCallArgs(node, x, vals) ==
    CASE node.cls = "Tensor"       -> <<Val("field", x, 1), Val("field", x, 2)>>
      [] node.cls = "Variable"     -> <<Val("field", x, 1), Val("field", x, 2)>>
      [] node.cls = "Substitution" -> <<vals[1], Val("subs", x, vals[2].x)>>
      [] node.cls = "Unary"        -> <<Val("field", x, 1), vals[1]>>
      [] node.cls = "Binary"       -> <<Val("field", x, 1), vals[1], vals[2]>>
      [] node.cls = "Reduction"    -> <<Val("field", x, 1), vals[1], Val("field", x, 3)>>

\* what a queued value stands for, as a constructor argument
Decode(h, v) ==
    CASE v.tag = "field" -> h[v.x].args[v.k]
      [] v.tag = "subs"  -> <<(<<h[v.x].args[2][1][1], v.k>>)>>
      [] OTHER           -> v.x

\* trampoline.__call__ up to the body: __enter__ resets the instance
EnterEval(x) ==
    /\ stack' = Append(stack, [x |-> x, pc |-> "body", vals |-> <<>>])
    /\ schedule' = <<>>
    /\ args_queue' = <<>>
    /\ kwargs_queue' = <<>>
    /\ returnvalue' = NoValue
    /\ UNCHANGED <<heap, cache, nextId, nextData, held, call, ret, opt, log>>

\* the client calls eval(x)
EvalCall ==
    /\ stack = <<>>
    /\ scope.pc = "out"
    /\ scope' = [pc |-> "body", failure |-> "none"]
    /\ EnterEval(call.x)

\* the body reaches eval(child) for its next child
EvalNested ==
    /\ stack # <<>>
    /\ LET top == stack[Len(stack)]
           children == EvalChildren(heap[top.x])
       IN  /\ top.pc = "body"
           /\ Len(top.vals) < Len(children)
           /\ EnterEval(children[Len(top.vals) + 1])
    /\ UNCHANGED scope

\* the body's `return _tail_call(effectful(cls, cls), ...)`
EvalTailCall ==
    /\ stack # <<>>
    /\ LET top == stack[Len(stack)]
           node == heap[top.x]
           args == TailCallArgs(node, top.x, top.vals)
       IN  /\ top.pc = "body"
           /\ Len(top.vals) = Len(EvalChildren(node))
           /\ schedule' = Append(schedule, [fn |-> node.cls, nargs |-> Len(args), nkwargs |-> 0])
           /\ args_queue' = args_queue \o args
           /\ stack' = [stack EXCEPT ![Len(stack)].pc = "exit"]
    /\ UNCHANGED <<heap, cache, nextId, nextData, held, call, ret, opt,
                   kwargs_queue, returnvalue, scope, log>>

\* the drain loop of __exit__, run to its end over a schedule whose steps
\* find their arguments queued: [st, args_queue, kwargs_queue, log]
RECURSIVE Drain(_, _, _, _, _)
Drain(st, sched, aq, kq, lg) ==
    IF sched = <<>> THEN [st |-> st, args_queue |-> aq, kwargs_queue |-> kq, log |-> lg]
    ELSE LET nxt == NextScheduled(sched)
             a == PopFront(aq, nxt.step.nargs)
             kw == PopFront(kq, nxt.step.nkwargs)
             r == New(st, nxt.step.fn, [k \in 1..Len(a.taken) |-> Decode(st.heap, a.taken[k])])
         IN  Drain(r.st, nxt.rest, Append(a.rest, Val("term", r.val, 0)), kw.rest,
                   Append(lg, [fn |-> nxt.step.fn, args |-> a.taken,
                               kwargs |-> kw.taken, ok |-> TRUE]))

\* __exit__ without an exception, then __call__ returns self._returnvalue
\* to the body that called eval, or to the client
EvalExit ==
    /\ stack # <<>>
    /\ stack[Len(stack)].pc = "exit"
    /\ LET d == Drain(Now, schedule, args_queue, kwargs_queue, log)
           value == Head(d.args_queue)
           callers == SubSeq(stack, 1, Len(stack) - 1)
       IN  /\ Becomes(d.st)
           /\ schedule' = <<>>
           /\ returnvalue' = value
           /\ args_queue' = Tail(d.args_queue)
           /\ kwargs_queue' = d.kwargs_queue
           /\ log' = d.log
           /\ IF callers = <<>>
              THEN /\ stack' = <<>>
                   /\ ret' = [ok |-> TRUE, val |-> value.x, val2 |-> NoObject]
                   /\ held' = held \cup {value.x}
                   /\ scope' = [pc |-> "returned", failure |-> "none"]
              ELSE /\ stack' = [callers EXCEPT ![Len(callers)].vals = Append(@, value)]
                   /\ UNCHANGED <<ret, held, scope>>
    /\ UNCHANGED <<call, opt>>

NextEval ==
    \/ EvalCall
    \/ EvalNested
    \/ EvalTailCall
    \/ EvalExit

SpecEval == InitEval /\ [][NextEval]_vars

\* C6: the number of eval invocations that are active at once stays within
\* what a single wrap needs (the invocation on the wrap and the one on its
\* child), however long the chain of Substitution/Unary wraps is.
C6_BoundedNesting == Len(stack) <= 2

----------------------------------------------------------------------------
(* SpecDeoptimize: the canonicalisation handler deoptimize_finitary.  It   *)
(* is entered with the fields (op, operands) of a Finitary.                *)

\* Deoptimize.GROUND_TERMS = (Distribution, Substitution, Number, Tensor);
\* of these the term model has Substitution and Tensor (with its subclass
\* Arange)
GROUND_TERMS == {"Substitution", "Tensor", "Arange"}

\* isinstance(term, (Finitary,) + Deoptimize.GROUND_TERMS)
IsFinitaryOrGround(cls) == cls \in {"Finitary"} \cup GROUND_TERMS

\* isinstance(term, (Reduction, Finitary)) with Finitary left out
IsRewritableReductionOnly(cls) == cls = "Reduction"

\* isinstance(term, (Reduction, Finitary))
IsRewritable(cls) == cls \in {"Reduction", "Finitary"}

\* new_operands with every operand appended, a Finitary of the same op too
FlattenOperandsKept(h, op, operands) == operands

\* new_operands of the first branch: the operands of an operand that is a
\* Finitary of the same op are spliced in, any other operand is kept
RECURSIVE FlattenOperands(_, _, _)
FlattenOperands(h, op, operands) ==
    IF operands = <<>> THEN <<>>
    ELSE LET term == Head(operands)
             rest == FlattenOperands(h, op, Tail(operands))
         IN  IF h[term].cls = "Finitary" /\ h[term].args[1] = op
             THEN h[term].args[2] \o rest
             ELSE <<term>> \o rest

\* new_reduce_dims = set(); new_reduce_dims = new_reduce_dims.union(...):
\* the union of a set with a frozenset is a set, not a frozenset
UnionReduceDims(h, operands) ==
    [frozen |-> FALSE,
     elems  |-> UNION {h[operands[i]].args[3] : i \in 1..Len(operands)}]

\* Reduction(op, arg, reduce_dims) called with a Python set or frozenset:
\* `key in cls._cache` hashes the key, and a set is unhashable (TypeError);
\* Reduction.__init__ would also fail its isinstance(.., frozenset) assert
CallReduction(st, op, arg, reduce_dims) ==
    IF reduce_dims.frozen
    THEN New(st, "Reduction", <<op, arg, reduce_dims.elems>>)
    ELSE Raise(st)

deoptimize_finitary(st, op, operands) ==
    LET h == st.heap
        n == Len(operands)
        Cls(i) == h[operands[i]].cls
    IN  IF \A i \in 1..n : IsFinitaryOrGround(Cls(i))
        THEN New(st, "Finitary", <<op, FlattenOperands(h, op, operands)>>)
        ELSE IF \A i \in 1..n : Cls(i) = "Reduction"
        THEN LET new_operands == [i \in 1..n |-> h[operands[i]].args[2]]
                 fin == New(st, "Finitary", <<op, new_operands>>)
             IN  CallReduction(fin.st, h[operands[1]].args[1], fin.val,
                               UnionReduceDims(h, operands))
        ELSE IF \A i \in 1..n : ~IsRewritable(Cls(i))
        THEN New(st, "Finitary", <<op, operands>>)
        ELSE Raise(st)

\* The terms a Finitary's operands are drawn from: three Tensors, a
\* Variable, a Finitary, two Reductions and a Substitution.
DeoptVariable == New(OptLeaves, "Variable", <<"i", 2>>)

DeoptFinitary == New(DeoptVariable.st, "Finitary", <<"mul", <<1, 2>> >>)

DeoptReductionI == New(DeoptFinitary.st, "Reduction", <<"add", 3, {"i"}>>)

DeoptReductionJ == New(DeoptReductionI.st, "Reduction", <<"add", 2, {"j"}>>)

DeoptSubstitution ==
    New(DeoptReductionJ.st, "Substitution", <<3, << <<"i", DeoptVariable.val>> >> >>)

DeoptPool == DeoptSubstitution.st

InitDeoptimize ==
    /\ \E op \in {"mul", "add"},
          operands \in UNION {[1..n -> DOMAIN DeoptPool.heap] : n \in 1..MaxOperands} :
          opt = [pc |-> "call", op |-> op, operands |-> operands, result |-> NoObject]
    /\ heap = DeoptPool.heap
    /\ cache = DeoptPool.cache
    /\ nextId = DeoptPool.nextId
    /\ nextData = DeoptPool.nextData
    /\ held = DOMAIN DeoptPool.heap
    /\ call = NoCall
    /\ ret = NoRet
    /\ TrampolineIdle

\* the handler runs; what it built and did not return is reclaimed
DeoptimizeFinitary ==
    /\ opt.pc = "call"
    /\ LET r == deoptimize_finitary(Now, opt.op, opt.operands)
           roots == held \cup (IF r.ok THEN {r.val} ELSE {})
       IN  /\ Becomes(Collect(r.st, roots))
           /\ held' = roots
           /\ opt' = [opt EXCEPT !.pc = IF r.ok THEN "returned" ELSE "raised",
                                 !.result = r.val]
    /\ UNCHANGED <<call, ret>>
    /\ UNCHANGED trampVars

NextDeoptimize == DeoptimizeFinitary

SpecDeoptimize == InitDeoptimize /\ [][NextDeoptimize]_vars

OperandClasses == {heap[opt.operands[i]].cls : i \in 1..Len(opt.operands)}

\* some operand is of a class in S and another operand is of a class in T
Mixes(S, T) ==
    \E i, j \in 1..Len(opt.operands) :
        /\ i # j
        /\ heap[opt.operands[i]].cls \in S
        /\ heap[opt.operands[j]].cls \in T

MixedKinds ==
    \/ Mixes({"Reduction"}, {"Finitary"} \cup GROUND_TERMS)
    \/ Mixes({"Finitary", "Reduction"},
             Classes \ ({"Finitary", "Reduction"} \cup GROUND_TERMS))

\* C11: for every operand list that mixes kinds (a Reduction next to a
\* Finitary or ground term, or a Finitary or Reduction next to a term that
\* is neither Finitary, Reduction nor ground) deoptimize_finitary fails
\* with the not-implemented error and returns no term.
C11_MixedRaises ==
    (opt.pc \in {"returned", "raised"} /\ MixedKinds) =>
        /\ opt.pc = "raised"
        /\ opt.result = NoObject
        /\ DOMAIN heap = DOMAIN DeoptPool.heap

C11_Witness ==
    /\ opt.pc = "raised"
    /\ OperandClasses = {"Finitary", "Variable"}

\* C12: when every operand is a Reduction, deoptimize_finitary returns a
\* single Reduction whose arg is Finitary(op, the operands' inner args in
\* order) and whose reduced set is the union of the operands' reduced sets.
C12_MergedReduction ==
    (opt.pc \in {"returned", "raised"} /\ OperandClasses = {"Reduction"}) =>
        /\ opt.pc = "returned"
        /\ heap[opt.result].cls = "Reduction"
        /\ LET arg == heap[opt.result].args[2]
           IN  /\ heap[arg].cls = "Finitary"
               /\ heap[arg].args[1] = opt.op
               /\ heap[arg].args[2] =
                      [i \in 1..Len(opt.operands) |-> heap[opt.operands[i]].args[2]]
        /\ heap[opt.result].args[3] =
               UNION {heap[opt.operands[i]].args[3] : i \in 1..Len(opt.operands)}

\* operand i is a Finitary of the operator op
IsFinitaryOf(op, x) == heap[x].cls = "Finitary" /\ heap[x].args[1] = op

\* what operand i contributes to the flat list: its own operands when it is
\* a Finitary of the outer operator, else itself
Contribution(i) ==
    IF IsFinitaryOf(opt.op, opt.operands[i]) THEN heap[opt.operands[i]].args[2]
    ELSE <<opt.operands[i]>>

\* the contributions of the operands from the i-th on, in order
RECURSIVE ContributionsFrom(_)
ContributionsFrom(i) ==
    IF i > Len(opt.operands) THEN <<>>
    ELSE Contribution(i) \o ContributionsFrom(i + 1)

\* every operand is a Finitary or a ground term
AllFinitaryOrGround ==
    \A i \in 1..Len(opt.operands) : IsFinitaryOrGround(heap[opt.operands[i]].cls)

\* no child Finitary of the outer operator has itself such a child
ChildrenFlat ==
    \A i \in 1..Len(opt.operands) :
        IsFinitaryOf(opt.op, opt.operands[i]) =>
            \A k \in 1..Len(heap[opt.operands[i]].args[2]) :
                ~IsFinitaryOf(opt.op, heap[opt.operands[i]].args[2][k])

\* C22: when every operand of Finitary(op, operands) is a Finitary or a
\* ground term, deoptimize_finitary returns one Finitary(op, ...) whose
\* operands are the input list with each child Finitary of the same
\* operator replaced in place by its operands and every other operand kept;
\* given flat children, no operand of the result is a Finitary of op.
C22_FlattenedInPlace ==
    (opt.pc \in {"returned", "raised"} /\ AllFinitaryOrGround) =>
        /\ opt.pc = "returned"
        /\ IsFinitaryOf(opt.op, opt.result)
        /\ heap[opt.result].args[2] = ContributionsFrom(1)
        /\ ChildrenFlat =>
               \A k \in 1..Len(heap[opt.result].args[2]) :
                   ~IsFinitaryOf(opt.op, heap[opt.result].args[2][k])

\* a ground term, then a Finitary of the outer operator, then a ground term
C22_Witness ==
    /\ opt.pc = "returned"
    /\ Len(opt.operands) = 3
    /\ AllFinitaryOrGround
    /\ IsFinitaryOf(opt.op, opt.operands[2])
    /\ ~IsFinitaryOf(opt.op, opt.operands[1])
    /\ Len(heap[opt.result].args[2]) = 4

\* the operand list falls under one of the three rewriting branches
AcceptedOperands ==
    \/ AllFinitaryOrGround
    \/ OperandClasses = {"Reduction"}
    \/ \A i \in 1..Len(opt.operands) : ~IsRewritable(heap[opt.operands[i]].cls)

\* the free dims of Finitary(op, operands)
FinitaryDims == UNION {DimsOf(heap, opt.operands[i]) : i \in 1..Len(opt.operands)}

\* C25: for every operand list deoptimize_finitary accepts (all Finitary or
\* ground, all Reduction, or none of them Reduction or Finitary) the
\* returned term has the free dims of Finitary(op, operands).
C25_FreeDimsPreserved ==
    (opt.pc \in {"returned", "raised"} /\ AcceptedOperands) =>
        /\ opt.pc = "returned"
        /\ DimsOf(heap, opt.result) = FinitaryDims

----------------------------------------------------------------------------
(* SpecSubstitution: Substitution(arg, subs) over binding lists of any     *)
(* length, the values being terms with dims of their own.                  *)

MaxBindings == 2

\* the terms that args and replacement values are drawn from
SubsPool ==
    LET vi  == New([Empty EXCEPT !.nextData = 4], "Variable", <<"i", 2>>)
        vj  == New(vi.st, "Variable", <<"j", 3>>)
        vk  == New(vj.st, "Variable", <<"k", 2>>)
        tij == New(vk.st, "Tensor", <<(<<"i", "j">>), [did |-> 1, shape |-> <<2, 3>>]>>)
        tki == New(tij.st, "Tensor", <<(<<"k", "i">>), [did |-> 2, shape |-> <<2, 2>>]>>)
        tjk == New(tki.st, "Tensor", <<(<<"j", "k">>), [did |-> 3, shape |-> <<3, 2>>]>>)
    IN  tjk.st

SubsDims == {"i", "j", "k"}

InitSubstitution ==
    /\ \E arg \in DOMAIN SubsPool.heap,
          subs \in UNION {[1..n -> SubsDims \X DOMAIN SubsPool.heap] : n \in 0..MaxBindings} :
          call = [m |-> "new", cls |-> "Substitution", args |-> <<arg, subs>>, npos |-> 2]
    /\ heap = SubsPool.heap
    /\ cache = SubsPool.cache
    /\ nextId = SubsPool.nextId
    /\ nextData = SubsPool.nextData
    /\ held = DOMAIN SubsPool.heap
    /\ ret = NoRet
    /\ opt = [pc |-> "call"]
    /\ TrampolineIdle

\* Substitution(arg, subs)
Substitute ==
    /\ opt.pc = "call"
    /\ LET r == New(Now, "Substitution", call.args)
       IN  /\ Becomes(r.st)
           /\ held' = IF r.ok THEN held \cup {r.val} ELSE held
           /\ ret' = [ok |-> r.ok, val |-> r.val, val2 |-> NoObject]
           /\ opt' = [pc |-> IF r.ok THEN "returned" ELSE "raised"]
    /\ UNCHANGED call
    /\ UNCHANGED trampVars

NextSubstitution == Substitute

SpecSubstitution == InitSubstitution /\ [][NextSubstitution]_vars

\* s followed by the elements of t that are not in it already
RECURSIVE AppendFresh(_, _)
AppendFresh(s, t) ==
    IF t = <<>> THEN s
    ELSE AppendFresh(IF Head(t) \in Range(s) THEN s ELSE Append(s, Head(t)), Tail(t))

RECURSIVE AppendValueDims(_, _)
AppendValueDims(s, subs) ==
    IF subs = <<>> THEN s
    ELSE AppendValueDims(AppendFresh(s, heap[Head(subs)[2]].dims), Tail(subs))

BoundDims(subs) == {subs[i][1] : i \in 1..Len(subs)}

\* the binding list binds distinct dims of arg
BindsDistinctDimsOf(arg, subs) ==
    /\ BoundDims(subs) \subseteq Range(heap[arg].dims)
    /\ Cardinality(BoundDims(subs)) = Len(subs)

\* C17: for every arg and binding list over distinct dims of arg, the dims
\* of Substitution(arg, bindings) are arg's unbound dims in their original
\* order, then the dims of the replacement values that are not present
\* already, in binding order; a bound dim is absent unless a replacement
\* value brings it back.
C17_SubstitutionDims ==
    (opt.pc \in {"returned", "raised"} /\ BindsDistinctDimsOf(call.args[1], call.args[2])) =>
        LET arg == call.args[1]
            subs == call.args[2]
            Unbound(d) == d \notin BoundDims(subs)
        IN  /\ ret.ok
            /\ heap[ret.val].dims =
                   AppendValueDims(SelectSeq(heap[arg].dims, Unbound), subs)
            /\ \A d \in BoundDims(subs) :
                   d \in Range(heap[ret.val].dims) =>
                       \E i \in 1..Len(subs) : d \in Range(heap[subs[i][2]].dims)

\* two dims bound, one of them brought back by a replacement value
C17_Witness ==
    /\ opt.pc = "returned"
    /\ Len(call.args[2]) = 2
    /\ BindsDistinctDimsOf(call.args[1], call.args[2])
    /\ \E d \in BoundDims(call.args[2]) : d \in Range(heap[ret.val].dims)
    /\ \E d \in BoundDims(call.args[2]) : d \notin Range(heap[ret.val].dims)

----------------------------------------------------------------------------
(* SpecIndex: calling and indexing a dense tensor, x(...) and x[...].      *)
(* An index is a record: a complete slice `:`, an Ellipsis, or an int.     *)

MaxIndex == 3

FullSlice == [kind |-> "slice", n |-> 0]
EllipsisArg == [kind |-> "ellipsis", n |-> 0]
IntArg(n) == [kind |-> "int", n |-> n]

\* a value that is the funsor x, and a value that is the dim name d
TermArg(x) == [kind |-> "term", n |-> x]
StrArg(d) == [kind |-> "str", n |-> 0, name |-> d]
IndexArgs == {FullSlice, EllipsisArg, IntArg(0), IntArg(1)}

\* subs.items(): the dims of self that got a value, in the order of dims
SubsItems(dims, pos, kwargs) ==
    LET Has(i) == dims[i] \in DOMAIN kwargs \/ i <= Len(pos)
        idx == SelectSeq([i \in 1..Len(dims) |-> i], Has)
    IN  [k \in 1..Len(idx) |->
           <<dims[idx[k]],
             IF dims[idx[k]] \in DOMAIN kwargs THEN kwargs[dims[idx[k]]] ELSE pos[idx[k]]>>]

\* Funsor.__call__: Substitution(self, tuple(subs.items())); a value that
\* is not a Funsor fails the constructor's assertion
Funsor__call__(st, x, pos, kwargs) ==
    LET subs == SubsItems(st.heap[x].dims, pos, kwargs)
    IN  IF \A i \in 1..Len(subs) : subs[i][2].kind = "term"
        THEN New(st, "Substitution",
                 <<x, [i \in 1..Len(subs) |-> <<subs[i][1], subs[i][2].n>>]>>)
        ELSE Raise(st)

\* Tensor._substitute(dim, value) for an int, a complete slice, a Tensor
\* and a str
Tensor_substitute(st, x, dim, value) ==
    LET self == st.heap[x]
        p == CHOOSE i \in 1..Len(self.dims) : self.dims[i] = dim
        Drop(s) == SubSeq(s, 1, p - 1) \o SubSeq(s, p + 1, Len(s))
        Splice(s, t) == SubSeq(s, 1, p - 1) \o t \o SubSeq(s, p + 1, Len(s))
    IN  CASE value.kind = "int" ->
                 IF value.n >= self.shape[p] THEN Raise(st)       \* IndexError
                 ELSE New([st EXCEPT !.nextData = @ + 1], "Tensor",
                          <<Drop(self.dims), [did |-> st.nextData, shape |-> Drop(self.shape)]>>)
          [] value.kind = "slice" -> Return(st, x)                \* value == slice(None)
          [] value.kind = "term" ->
                 LET v == st.heap[value.n]
                 IN  IF \E d \in Range(v.dims) : d # dim /\ d \in Range(self.dims)
                     THEN Raise(st)                               \* NotImplementedError
                     ELSE New([st EXCEPT !.nextData = @ + 1], "Tensor",
                              <<Splice(self.dims, v.dims),
                                [did |-> st.nextData, shape |-> Splice(self.shape, v.shape)]>>)
          [] value.kind = "str" ->
                 IF self.dims[p] = value.name THEN Return(st, x)
                 ELSE \* dims[pos] = dim: the dims are left as they were
                      New(st, "Tensor", <<[self.dims EXCEPT ![p] = dim], self.args[2]>>)

\* the loop of Tensor.__call__ over subs.items(): a Funsor value with a dim
\* in conflicts[1 + i:] raises NotImplementedError, else
\* result = result._substitute(dim, value)
RECURSIVE SubstituteAll(_, _, _)
SubstituteAll(st, x, subs) ==
    IF subs = <<>> THEN Return(st, x)
    ELSE LET value == Head(subs)[2]
             later == {Tail(subs)[i][1] : i \in 1..Len(Tail(subs))}
         IN  IF value.kind = "term" /\ Range(st.heap[value.n].dims) \cap later # {}
             THEN Raise(st)
             ELSE LET r == Tensor_substitute(st, x, Head(subs)[1], value)
                  IN  IF r.ok THEN SubstituteAll(r.st, r.val, Tail(subs)) ELSE r

\* Tensor without its __call__ override: the one inherited from Funsor
Tensor__call__Inherited(st, x, pos, kwargs) == Funsor__call__(st, x, pos, kwargs)

Tensor__call__(st, x, pos, kwargs) ==
    LET subs == SubsItems(st.heap[x].dims, pos, kwargs)
    IN  IF \A i \in 1..Len(subs) :
               \/ subs[i][2].kind \in {"int", "slice", "str"}
               \/ subs[i][2].kind = "term" /\ IsTensor(st.heap, subs[i][2].n)
        THEN SubstituteAll(st, x, subs)
        ELSE Funsor__call__(st, x, pos, kwargs)

\* Funsor.__getitem__: positions before an Ellipsis bind the leading dims
\* (IndexError past the last dim), the arguments after it bind the
\* trailing dims (zip stops at the shorter), complete slices are dropped
Funsor__getitem__(st, x, args) ==
    LET dims == st.heap[x].dims
        n == Len(dims)
        ells == {i \in 1..Len(args) : args[i].kind = "ellipsis"}
        e == IF ells = {} THEN Len(args) + 1
             ELSE CHOOSE i \in ells : \A j \in ells : i <= j
        rest == SubSeq(args, e + 1, Len(args))
        m == IF Len(rest) < n THEN Len(rest) ELSE n
        back == (n - m + 1)..n
        Value(i) == IF i \in back THEN rest[Len(rest) - (n - i)] ELSE args[i]
        bound == {i \in (1..(e - 1)) \cup back : Value(i) # FullSlice}
        kwargs == [d \in {dims[i] : i \in bound} |->
                     Value(CHOOSE i \in bound : dims[i] = d)]
    IN  IF e - 1 > n THEN Raise(st)
        ELSE Tensor__call__(st, x, <<>>, kwargs)

\* dense tensors of rank 0 to 3; every dim has size 2
IndexPool ==
    LET t0 == New([Empty EXCEPT !.nextData = 5], "Tensor",
                  <<(<<>>), [did |-> 1, shape |-> <<>>]>>)
        t1 == New(t0.st, "Tensor", <<(<<"i">>), [did |-> 2, shape |-> <<2>>]>>)
        t2 == New(t1.st, "Tensor", <<(<<"i", "j">>), [did |-> 3, shape |-> <<2, 2>>]>>)
        t3 == New(t2.st, "Tensor", <<(<<"i", "j", "k">>), [did |-> 4, shape |-> <<2, 2, 2>>]>>)
    IN  t3.st

InitIndex ==
    /\ \E x \in DOMAIN IndexPool.heap, m \in {"call", "getitem"},
          args \in UNION {[1..n -> IndexArgs] : n \in 0..MaxIndex} :
          /\ m = "call" => \A i \in 1..Len(args) : args[i].kind = "int"
          /\ call = [m |-> m, x |-> x, args |-> args]
    /\ heap = IndexPool.heap
    /\ cache = IndexPool.cache
    /\ nextId = IndexPool.nextId
    /\ nextData = IndexPool.nextData
    /\ held = DOMAIN IndexPool.heap
    /\ ret = NoRet
    /\ opt = [pc |-> "call"]
    /\ TrampolineIdle

Finish(r) ==
    LET roots == held \cup (IF r.ok THEN {r.val} ELSE {})
    IN  /\ Becomes(Collect(r.st, roots))
        /\ held' = roots
        /\ ret' = [ok |-> r.ok, val |-> r.val, val2 |-> NoObject]
        /\ opt' = [pc |-> IF r.ok THEN "returned" ELSE "raised"]
        /\ UNCHANGED call
        /\ UNCHANGED trampVars

\* x(*args): zip(self.dims, args) drops the arguments past the last dim
CallTensor ==
    /\ opt.pc = "call"
    /\ call.m = "call"
    /\ Finish(Tensor__call__(Now, call.x,
                             SubSeq(call.args, 1, IF Len(call.args) < Len(heap[call.x].dims)
                                                  THEN Len(call.args)
                                                  ELSE Len(heap[call.x].dims)),
                             <<>>))

\* x[args]
GetItem ==
    /\ opt.pc = "call"
    /\ call.m = "getitem"
    /\ Finish(Funsor__getitem__(Now, call.x, call.args))

NextIndex == CallTensor \/ GetItem

SpecIndex == InitIndex /\ [][NextIndex]_vars

\* the call or index binds no dimension: x(), x[...], or complete slices
BindsNothing ==
    \/ call.m = "call" /\ call.args = <<>>
    \/ call.m = "getitem" /\ call.args = <<EllipsisArg>>
    \/ /\ call.m = "getitem"
       /\ call.args # <<>>
       /\ \A i \in 1..Len(call.args) : call.args[i] = FullSlice

ReturnsSelf ==
    /\ opt.pc = "returned"
    /\ ret.val = call.x
    /\ DOMAIN heap = DOMAIN IndexPool.heap

\* C20 as stated: for a dense tensor x of any rank, x(), x[:], x[:, :] and
\* x[...] return x itself, the same instance.
C20_NoBindingReturnsSelf ==
    (opt.pc \in {"returned", "raised"} /\ BindsNothing) => ReturnsSelf

\* C20, amended: x() and x[...] return x itself for every rank, and an
\* index of complete slices returns x itself when it has no more slices
\* than x has dims; with more slices than dims the index fails.
C20_NoBindingWithinRank ==
    (opt.pc \in {"returned", "raised"} /\ BindsNothing) =>
        IF call.m = "getitem" /\ call.args # <<EllipsisArg>>
              /\ Len(call.args) > Len(heap[call.x].dims)
        THEN opt.pc = "raised" /\ DOMAIN heap = DOMAIN IndexPool.heap
        ELSE ReturnsSelf

\* x[:, :] on a tensor of rank 2
C20_Witness ==
    /\ opt.pc = "returned"
    /\ call.m = "getitem"
    /\ call.args = <<FullSlice, FullSlice>>
    /\ Len(heap[call.x].dims) = 2
    /\ ret.val = call.x

----------------------------------------------------------------------------
(* The contraction primitive of the numeric backend.                       *)

\* opt_einsum.contract(lhs.data, lhs.dims, rhs.data, rhs.dims, dims) with
\* the standard-sum backend: the product of the operands, summed over the
\* dims that are not in the output
Einsum(did, ldata, ldims, rdata, rdims, dims) ==
    LET all == Range(ldims) \cup Range(rdims)
        size == [d \in all |-> IF d \in Range(ldims) THEN ldata.shape[PosOf(ldims, d)]
                               ELSE rdata.shape[PosOf(rdims, d)]]
        summed == all \ Range(dims)
        shape == [k \in 1..Len(dims) |-> size[dims[k]]]
        Out(idx) == [d \in Range(dims) |-> idx[PosOf(dims, d)]]
        Entry(idx) ==
            SumFn([a \in Envs(summed, size) |->
                     At(ldata, ldims, a @@ Out(idx)) * At(rdata, rdims, a @@ Out(idx))])
    IN  [did |-> did, shape |-> shape, val |-> [idx \in Indices(shape) |-> Entry(idx)]]

----------------------------------------------------------------------------
(* SpecContract: the contraction algebra `contract`, a KeyedRegistry keyed *)
(* by an operator pair and the kinds of the two operands.                  *)

MaxCalls == 2

OpPairs == {<<"add", "mul">>, <<"logaddexp", "add">>}

\* contract.register((sum_op, prod_op), kind, kind, frozenset) at import
ContractHandlers ==
    (<< <<"add", "mul">>, "Funsor", "Funsor" >> :> "_sumproduct")
    @@ (<< <<"add", "mul">>, "Tensor", "Tensor" >> :> "_sumproduct_tensor_tensor")
    @@ (<< <<"logaddexp", "add">>, "Funsor", "Funsor" >> :> "_logsumproductexp")
    @@ (<< <<"logaddexp", "add">>, "Tensor", "Tensor" >> :> "_logsumproductexp_tensor_tensor")

\* handlers a domain extension registers: each returns one of its operands
ExtensionHandlers == {"first", "second"}
ExtensionSignatures ==
    {<< <<"add", "mul">>, "Variable", "Tensor" >>,
     << <<"logaddexp", "add">>, "Variable", "Variable" >>}

\* KeyedRegistry lookup: the registered signature that matches the
\* operator pair and the kind of each operand in the most positions exactly,
\* Funsor matching any kind
Lookup(registry, pair, lcls, rcls) ==
    LET Matches(sig) == /\ sig[1] = pair
                        /\ sig[2] \in {lcls, "Funsor"}
                        /\ sig[3] \in {rcls, "Funsor"}
        Exact(sig) == (IF sig[2] = lcls THEN 1 ELSE 0) + (IF sig[3] = rcls THEN 1 ELSE 0)
        found == {sig \in DOMAIN registry : Matches(sig)}
    IN  CHOOSE sig \in found : \A other \in found : Exact(other) <= Exact(sig)

\* _sumproduct, _logsumproductexp: Contract(sum_op, prod_op, lhs, rhs, reduce_dims)
ContractLazy(st, pair, lhs, rhs, reduce_dims) ==
    New(st, "Contract", <<pair[1], pair[2], lhs, rhs, PyFrozenset(reduce_dims)>>)

\* the schema and dims of both tensor handlers; `del schema[dim]` raises
\* KeyError for a dim that neither operand has
ContractedSchema(h, lhs, rhs, reduce_dims) ==
    LET schema == SchemaUpdate(SchemaOfObj(h, lhs), SchemaOfObj(h, rhs))
        Keep(p) == p[1] \notin reduce_dims
    IN  [ok |-> reduce_dims \subseteq Range(SchemaDims(schema)),
         dims |-> SchemaDims(SelectSeq(schema, Keep))]

\* _sumproduct_tensor_tensor that ignores reduce_dims and keeps every dim
sumproduct_tensor_tensor_keepall(st, lhs, rhs, reduce_dims) ==
    LET h == st.heap
        s == ContractedSchema(h, lhs, rhs, {})
    IN  New([st EXCEPT !.nextData = @ + 1], "Tensor",
            <<s.dims, Einsum(st.nextData, h[lhs].args[2], h[lhs].dims,
                             h[rhs].args[2], h[rhs].dims, s.dims)>>)

sumproduct_tensor_tensor(st, lhs, rhs, reduce_dims) ==
    LET h == st.heap
        s == ContractedSchema(h, lhs, rhs, reduce_dims)
    IN  IF ~s.ok THEN Raise(st)
        ELSE New([st EXCEPT !.nextData = @ + 1], "Tensor",
                 <<s.dims, Einsum(st.nextData, h[lhs].args[2], h[lhs].dims,
                                  h[rhs].args[2], h[rhs].dims, s.dims)>>)

\* _logsumproductexp_tensor_tensor: the same dims; the entries come from the
\* log-domain backend and are reals, which the data model does not hold
logsumproductexp_tensor_tensor(st, lhs, rhs, reduce_dims) ==
    LET h == st.heap
        s == ContractedSchema(h, lhs, rhs, reduce_dims)
        size == SchemaUpdate(SchemaOfObj(h, lhs), SchemaOfObj(h, rhs))
    IN  IF ~s.ok THEN Raise(st)
        ELSE New([st EXCEPT !.nextData = @ + 1], "Tensor",
                 <<s.dims, [did |-> st.nextData,
                            shape |-> [k \in 1..Len(s.dims) |-> SchemaGet(size, s.dims[k], 0)]]>>)

RunHandler(st, handler, pair, lhs, rhs, reduce_dims) ==
    CASE handler \in {"_sumproduct", "_logsumproductexp"} ->
             ContractLazy(st, pair, lhs, rhs, reduce_dims)
      [] handler = "_sumproduct_tensor_tensor" ->
             sumproduct_tensor_tensor(st, lhs, rhs, reduce_dims)
      [] handler = "_logsumproductexp_tensor_tensor" ->
             logsumproductexp_tensor_tensor(st, lhs, rhs, reduce_dims)
      [] handler = "first"  -> Return(st, lhs)
      [] handler = "second" -> Return(st, rhs)

\* the operands: two Variables and two Tensors
ContractPool ==
    LET vi  == New([Empty EXCEPT !.nextData = 3], "Variable", <<"i", 2>>)
        vj  == New(vi.st, "Variable", <<"j", 2>>)
        tij == New(vj.st, "Tensor",
                   <<(<<"i", "j">>),
                     [did |-> 1, shape |-> <<2, 2>>,
                      val |-> [idx \in Indices(<<2, 2>>) |-> idx[1]]]>>)
        tj  == New(tij.st, "Tensor",
                   <<(<<"j">>),
                     [did |-> 2, shape |-> <<2>>,
                      val |-> [idx \in Indices(<<2>>) |-> 1]]>>)
    IN  tj.st

ContractDims == {{}, {"j"}, {"i", "j"}}

InitContract ==
    /\ heap = ContractPool.heap
    /\ cache = ContractPool.cache
    /\ nextId = ContractPool.nextId
    /\ nextData = ContractPool.nextData
    /\ held = DOMAIN ContractPool.heap
    /\ call = NoCall
    /\ ret = NoRet
    /\ opt = [pc |-> "idle", registry |-> ContractHandlers, handler |-> "none"]
    /\ TrampolineIdle

\* contract.register(signature)(handler) by a domain extension
Register ==
    \E sig \in ExtensionSignatures, handler \in ExtensionHandlers :
        /\ opt' = [pc |-> "registered", registry |-> (sig :> handler) @@ opt.registry,
                   handler |-> "none"]
        /\ call' = [m |-> "register", sig |-> sig, handler |-> handler]
        /\ ret' = NoRet
        /\ Becomes(Collect(Now, DOMAIN ContractPool.heap))
        /\ held' = DOMAIN ContractPool.heap
        /\ UNCHANGED trampVars

\* contract(sum_op, prod_op, lhs, rhs, reduce_dims); the result of the
\* call before is dropped
CallContract ==
    \E pair \in OpPairs, lhs \in DOMAIN ContractPool.heap,
       rhs \in DOMAIN ContractPool.heap, reduce_dims \in ContractDims :
        LET sig == Lookup(opt.registry, pair, heap[lhs].cls, heap[rhs].cls)
            handler == opt.registry[sig]
            r == RunHandler(Now, handler, pair, lhs, rhs, reduce_dims)
            roots == DOMAIN ContractPool.heap \cup (IF r.ok THEN {r.val} ELSE {})
        IN  /\ nextId - ContractPool.nextId < MaxCalls
            /\ Becomes(Collect(r.st, roots))
            /\ held' = roots
            /\ call' = [m |-> "contract", pair |-> pair, lhs |-> lhs, rhs |-> rhs,
                        reduce_dims |-> reduce_dims]
            /\ ret' = [ok |-> r.ok, val |-> r.val, val2 |-> NoObject]
            /\ opt' = [opt EXCEPT !.pc = IF r.ok THEN "returned" ELSE "raised",
                                  !.handler = handler]
            /\ UNCHANGED trampVars

NextContract == Register \/ CallContract

SpecContract == InitContract /\ [][NextContract]_vars

Called == call.m = "contract" /\ opt.pc \in {"returned", "raised"}

\* ret.val is a lazy Contract node carrying the operator pair and operands
\* of the call, whose schema is the operands' schemas minus reduce_dims
IsLazyContract ==
    /\ ret.ok
    /\ heap[ret.val].cls = "Contract"
    /\ SubSeq(heap[ret.val].args, 1, 4) = <<call.pair[1], call.pair[2], call.lhs, call.rhs>>
    /\ LET schema == SchemaUpdate(SchemaOfObj(heap, call.lhs), SchemaOfObj(heap, call.rhs))
           Keep(p) == p[1] \notin call.reduce_dims
       IN  SchemaOfObj(heap, ret.val) = SelectSeq(schema, Keep)

\* C14: for (add, mul) and (logaddexp, add), any two operands and any set
\* of dims, the generic contraction handler returns a lazy Contract node
\* with the operator pair and the operands, whose schema is the union of
\* the operands' schemas minus the eliminated dims; it never fails.
C14_GenericReturnsLazy ==
    (Called /\ opt.handler \in {"_sumproduct", "_logsumproductexp"}) => IsLazyContract

ExactSignature == <<call.pair, heap[call.lhs].cls, heap[call.rhs].cls>>

\* C15: a call whose signature has no specialized handler returns the
\* generic lazy node; once a handler is registered for that exact
\* signature every later call with it returns that handler's result, and
\* the handlers registered before for other signatures keep answering.
C15_RegistryFallback ==
    Called =>
        IF ExactSignature \in DOMAIN opt.registry
        THEN /\ opt.handler = opt.registry[ExactSignature]
             /\ opt.handler = "first" => ret.ok /\ ret.val = call.lhs
             /\ opt.handler = "second" => ret.ok /\ ret.val = call.rhs
             /\ \A sig \in DOMAIN ContractHandlers : opt.registry[sig] = ContractHandlers[sig]
        ELSE IsLazyContract

----------------------------------------------------------------------------
(* SpecSumProduct: the sum-product contraction of two dense tensors, over  *)
(* every input data with entries in 0..MaxValue.                           *)

\* the size of each dim of the two operands
SumProductSize(d) == CASE d = "i" -> 1 [] d = "j" -> 2 [] d = "k" -> 3
SumProductLhsDims == {<<"i", "j">>, <<"j", "i">>, <<"i">>}
SumProductRhsDims == {<<"j", "k">>, <<"j">>}
SumProductReduceDims == (SUBSET {"i", "j", "k"}) \cup {{"z"}}

ShapeOf(dims) == [k \in 1..Len(dims) |-> SumProductSize(dims[k])]

InitSumProduct ==
    /\ \E ldims \in SumProductLhsDims, rdims \in SumProductRhsDims,
          reduce_dims \in SumProductReduceDims :
       \E ldata \in DataOf(1, ShapeOf(ldims)), rdata \in DataOf(2, ShapeOf(rdims)) :
          LET f == New([Empty EXCEPT !.nextData = 3], "Tensor", <<ldims, ldata>>)
              g == New(f.st, "Tensor", <<rdims, rdata>>)
          IN  /\ heap = g.st.heap
              /\ cache = g.st.cache
              /\ nextId = g.st.nextId
              /\ nextData = g.st.nextData
              /\ held = {f.val, g.val}
              /\ call = [m |-> "contract", pair |-> <<"add", "mul">>,
                         lhs |-> f.val, rhs |-> g.val, reduce_dims |-> reduce_dims]
    /\ ret = NoRet
    /\ opt = [pc |-> "call"]
    /\ TrampolineIdle

\* contract(ops.add, ops.mul, f, g, reduce_dims) on two Tensors
SumProduct ==
    /\ opt.pc = "call"
    /\ LET r == sumproduct_tensor_tensor(Now, call.lhs, call.rhs, call.reduce_dims)
       IN  /\ Becomes(r.st)
           /\ held' = IF r.ok THEN held \cup {r.val} ELSE held
           /\ ret' = [ok |-> r.ok, val |-> r.val, val2 |-> NoObject]
           /\ opt' = [pc |-> IF r.ok THEN "returned" ELSE "raised"]
    /\ UNCHANGED call
    /\ UNCHANGED trampVars

NextSumProduct == SumProduct

SpecSumProduct == InitSumProduct /\ [][NextSumProduct]_vars

\* the dims of f, then the dims of g that f does not have, without D
ExpectedDims(f, g, D) ==
    LET NotInF(d) == d \notin Range(heap[f].dims)
        NotInD(d) == d \notin D
    IN  SelectSeq(heap[f].dims \o SelectSeq(heap[g].dims, NotInF), NotInD)

\* sum over the values of the D dims of f's entry times g's entry, the
\* other dims fixed by the index idx of the result
ExpectedEntry(f, g, D, dims, idx) ==
    LET here == [d \in Range(dims) |-> idx[PosOf(dims, d)]]
    IN  SumFn([a \in Envs(D, [d \in D |-> SumProductSize(d)]) |->
                 At(heap[f].args[2], heap[f].dims, a @@ here)
                 * At(heap[g].args[2], heap[g].dims, a @@ here)])

IsSumProduct(D) ==
    /\ ret.ok
    /\ heap[ret.val].cls = "Tensor"
    /\ heap[ret.val].dims = ExpectedDims(call.lhs, call.rhs, D)
    /\ heap[ret.val].shape = ShapeOf(heap[ret.val].dims)
    /\ heap[ret.val].args[2].shape = heap[ret.val].shape
    /\ \A idx \in Indices(heap[ret.val].shape) :
           heap[ret.val].args[2].val[idx] =
               ExpectedEntry(call.lhs, call.rhs, D, heap[ret.val].dims, idx)

OperandDims == Range(heap[call.lhs].dims) \cup Range(heap[call.rhs].dims)

\* C18 as stated: for two dense tensors f, g and a set D of dims, the
\* sum-product contraction returns a dense tensor over (dims of f, then
\* dims of g not in f) minus D, sizes from the operands, whose entries are
\* the sums over the D dims of f's entry times g's entry.
C18_SumProductAnyDims ==
    opt.pc \in {"returned", "raised"} => IsSumProduct(call.reduce_dims \cap OperandDims)

\* C18, amended: the same, for a set D of dims of f or g; with a dim in D
\* that neither operand has the contraction fails.
C18_SumProductOperandDims ==
    opt.pc \in {"returned", "raised"} =>
        IF call.reduce_dims \subseteq OperandDims
        THEN IsSumProduct(call.reduce_dims)
        ELSE opt.pc = "raised"

\* h[i, k] = sum over j of f[i, j] * g[j, k], with an entry above 1
C18_Witness ==
    /\ opt.pc = "returned"
    /\ heap[call.lhs].dims = <<"i", "j">>
    /\ heap[call.rhs].dims = <<"j", "k">>
    /\ call.reduce_dims = {"j"}
    /\ heap[ret.val].dims = <<"i", "k">>
    /\ \E idx \in Indices(heap[ret.val].shape) : heap[ret.val].args[2].val[idx] > 1

----------------------------------------------------------------------------
(* SpecMaterialize: materialize() of a lazy term built pointwise from      *)
(* discrete Variables.                                                     *)

ApplyUnary(op, a) == CASE op = "neg" -> 0 - a

ApplyBinary(op, a, b) == CASE op = "add" -> a + b [] op = "mul" -> a * b

\* data.permute(perm): axis k of the result is axis perm[k] of data
Permute(data, perm) ==
    LET shape == [k \in 1..Len(perm) |-> data.shape[perm[k]]]
        Back(idx) == [a \in 1..Len(perm) |-> idx[CHOOSE k \in 1..Len(perm) : perm[k] = a]]
    IN  [did |-> data.did, shape |-> shape,
         val |-> [idx \in Indices(shape) |-> data.val[Back(idx)]]]

\* the position of an index tuple in row-major order
RECURSIVE Flat(_, _)
Flat(idx, shape) ==
    IF idx = <<>> THEN 0
    ELSE Flat(SubSeq(idx, 1, Len(idx) - 1), SubSeq(shape, 1, Len(shape) - 1)) * shape[Len(shape)]
         + idx[Len(idx)]

\* data.reshape(shape): the same entries in row-major order
Reshape(data, shape) ==
    [did |-> data.did, shape |-> shape,
     val |-> [idx \in Indices(shape) |->
                data.val[CHOOSE old \in Indices(data.shape) :
                             Flat(old, data.shape) = Flat(idx, shape)]]]

\* align_tensors without the permute: the data is only reshaped
AlignDataUnpermuted(x_dims, x, sizes) ==
    LET dims == SchemaDims(sizes)
    IN  IF x_dims = dims THEN x
        ELSE Reshape(x, [k \in 1..Len(dims) |->
                           IF dims[k] \in Range(x_dims) THEN sizes[k][2] ELSE 1])

\* align_tensors, one tensor: permuted to the order of dims, then reshaped
\* with size 1 for each dim it does not have
AlignData(x_dims, x, sizes) ==
    LET dims == SchemaDims(sizes)
        Mine(d) == d \in Range(x_dims)
        mine == SelectSeq(dims, Mine)
    IN  IF x_dims = dims THEN x
        ELSE Reshape(Permute(x, [k \in 1..Len(mine) |-> PosOf(x_dims, mine[k])]),
                     [k \in 1..Len(dims) |->
                        IF dims[k] \in Range(x_dims) THEN sizes[k][2] ELSE 1])

\* op(self_data, other_data) on two torch tensors of the same rank, an axis
\* of size 1 being broadcast
Broadcast(did, op, a, b) ==
    LET shape == [k \in 1..Len(a.shape) |->
                    IF a.shape[k] = 1 THEN b.shape[k] ELSE a.shape[k]]
        Clip(idx, s) == [k \in 1..Len(s) |-> IF s[k] = 1 THEN 0 ELSE idx[k]]
    IN  [did |-> did, shape |-> shape,
         val |-> [idx \in Indices(shape) |->
                    ApplyBinary(op, a.val[Clip(idx, a.shape)], b.val[Clip(idx, b.shape)])]]

\* Tensor.unary
Tensor_unary(st, x, op) ==
    LET data == TensorData(st.heap, x)
    IN  New([st EXCEPT !.nextData = @ + 1], "Tensor",
            <<st.heap[x].dims,
              [did |-> st.nextData, shape |-> data.shape,
               val |-> [idx \in Indices(data.shape) |-> ApplyUnary(op, data.val[idx])]]>>)

\* Tensor.binary with another Tensor
Tensor_binary(st, x, op, other) ==
    LET h == st.heap
        sizes == SchemaUpdate(SchemaOfObj(h, x), SchemaOfObj(h, other))
        self_data == AlignData(h[x].dims, TensorData(h, x), sizes)
        other_data == AlignData(h[other].dims, TensorData(h, other), sizes)
    IN  New([st EXCEPT !.nextData = @ + 1], "Tensor",
            <<SchemaDims(sizes), Broadcast(st.nextData, op, self_data, other_data)>>)

\* materialize(): Funsor.materialize on a Variable calls it with its dim
\* bound to Arange(dim, size), and Variable.__call__ returns that value;
\* Unary and Binary materialize their arguments; a Tensor returns itself
RECURSIVE Materialize(_, _)
Materialize(st, x) ==
    LET self == st.heap[x]
    IN  CASE self.cls = "Variable" -> New(st, "Arange", <<self.dims[1], self.shape[1]>>)
          [] self.cls \in {"Tensor", "Arange"} -> Return(st, x)
          [] self.cls = "Unary" ->
                 LET arg == Materialize(st, self.args[2])
                 IN  Tensor_unary(arg.st, arg.val, self.args[1])
          [] self.cls = "Binary" ->
                 LET lhs == Materialize(st, self.args[2])
                     rhs == Materialize(lhs.st, self.args[3])
                 IN  Tensor_binary(rhs.st, lhs.val, self.args[1], rhs.val)

\* the lazy terms of depth up to 1 over Variable('i', 2) and Variable('j', 3)
MaterializePool ==
    LET vi == New(Empty, "Variable", <<"i", 2>>)
        vj == New(vi.st, "Variable", <<"j", 3>>)
    IN  vj.st

PointwiseOps == {"add", "mul"}

\* Unary(neg, v) or Binary(op, v, w) or v itself, v and w being terms of st
Wrap(st, kind, op, v, w) ==
    CASE kind = "leaf"   -> Return(st, v)
      [] kind = "Unary"  -> New(st, "Unary", <<"neg", v>>)
      [] kind = "Binary" -> New(st, "Binary", <<op, v, w>>)

WrapKinds == {"leaf", "Unary", "Binary"}

InitMaterialize ==
    /\ \E k1 \in WrapKinds, k2 \in WrapKinds, k \in {"Unary", "Binary"},
          o1 \in PointwiseOps, o2 \in PointwiseOps, o \in PointwiseOps,
          v1 \in {1, 2}, w1 \in {1, 2}, v2 \in {1, 2}, w2 \in {1, 2} :
          LET a == Wrap(MaterializePool, k1, o1, v1, w1)
              b == Wrap(a.st, k2, o2, v2, w2)
              x == Wrap(b.st, k, o, a.val, b.val)
          IN  /\ heap = x.st.heap
              /\ cache = x.st.cache
              /\ nextId = x.st.nextId
              /\ nextData = x.st.nextData
              /\ held = DOMAIN x.st.heap
              /\ call = [m |-> "materialize", x |-> x.val]
    /\ ret = NoRet
    /\ opt = [pc |-> "call"]
    /\ TrampolineIdle

\* x.materialize(); the intermediate tensors are reclaimed
CallMaterialize ==
    /\ opt.pc = "call"
    /\ LET r == Materialize(Now, call.x)
           roots == held \cup {r.val}
       IN  /\ Becomes(Collect(r.st, roots))
           /\ held' = roots
           /\ ret' = [ok |-> r.ok, val |-> r.val, val2 |-> NoObject]
           /\ opt' = [pc |-> "returned"]
    /\ UNCHANGED call
    /\ UNCHANGED trampVars

NextMaterialize == CallMaterialize

SpecMaterialize == InitMaterialize /\ [][NextMaterialize]_vars

\* the lazy term x evaluated with each dim d bound to the number env[d]:
\* x(**env) through Variable.__call__, Unary.__call__ and Binary.__call__
RECURSIVE ValueAt(_, _)
ValueAt(x, env) ==
    LET self == heap[x]
    IN  CASE self.cls = "Variable" -> env[self.dims[1]]
          [] self.cls = "Unary"    -> ApplyUnary(self.args[1], ValueAt(self.args[2], env))
          [] self.cls = "Binary"   -> ApplyBinary(self.args[1], ValueAt(self.args[2], env),
                                                  ValueAt(self.args[3], env))

\* C19: materializing a lazy term built pointwise from discrete Variables
\* yields a dense term with the dims and shape of the lazy term, whose
\* entry at every index tuple is the lazy term evaluated at that index.
C19_MaterializeAgrees ==
    opt.pc = "returned" =>
        LET x == call.x
            g == ret.val
            dims == heap[x].dims
        IN  /\ ret.ok
            /\ IsTensor(heap, g)
            /\ heap[g].dims = dims
            /\ heap[g].shape = heap[x].shape
            /\ TensorData(heap, g).shape = heap[x].shape
            /\ \A idx \in Indices(heap[x].shape) :
                   TensorData(heap, g).val[idx] =
                       ValueAt(x, [d \in Range(dims) |-> idx[PosOf(dims, d)]])

\* a Binary over ('i', 'j') whose right operand is a Binary over ('j', 'i')
C19_Witness ==
    /\ opt.pc = "returned"
    /\ heap[call.x].cls = "Binary"
    /\ heap[call.x].dims = <<"i", "j">>
    /\ heap[heap[call.x].args[3]].dims = <<"j", "i">>
    /\ heap[ret.val].cls = "Tensor"

----------------------------------------------------------------------------
(* Eager evaluation: the EagerEval handlers applied bottom-up by eval.     *)

\* a size that is not an int: one of DOMAINS, coded as a negative size
REAL == 0 - 1

\* op(v) for a unary op: v.unary(op)
RECURSIVE UnaryOf(_, _, _)
UnaryOf(st, v, op) ==
    LET cls == st.heap[v].cls
    IN  CASE cls \in {"Tensor", "Arange"} -> Tensor_unary(st, v, op)
          [] cls = "Align" -> UnaryOf(st, st.heap[v].args[1], op)
          [] OTHER -> New(st, "Unary", <<op, v>>)

\* op(lhs, rhs) for a binary op: lhs.binary(op, rhs)
RECURSIVE BinaryOf(_, _, _, _)
BinaryOf(st, lhs, op, rhs) ==
    LET cls == st.heap[lhs].cls
    IN  CASE cls \in {"Tensor", "Arange"} /\ IsTensor(st.heap, rhs) ->
                 Tensor_binary(st, lhs, op, rhs)
          [] cls = "Align" -> BinaryOf(st, st.heap[lhs].args[1], op, rhs)
          [] OTHER -> New(st, "Binary", <<op, lhs, rhs>>)

\* eager_variable
eager_variable(st, name, size) ==
    IF size # REAL THEN New(st, "Arange", <<name, size>>)
    ELSE New(st, "Variable", <<name, size>>)

\* reduce(op, operands[1:], operands[0])
RECURSIVE FoldOperands(_, _, _, _)
FoldOperands(st, op, acc, rest) ==
    IF rest = <<>> THEN Return(st, acc)
    ELSE LET r == BinaryOf(st, acc, op, Head(rest))
         IN  IF r.ok THEN FoldOperands(r.st, op, r.val, Tail(rest)) ELSE r

\* eager_finitary
eager_finitary(st, op, operands) ==
    IF Len(operands) = 1 THEN UnaryOf(st, operands[1], op)
    ELSE FoldOperands(st, op, operands[1], Tail(operands))

\* eager_reduce of engine.py: assert isinstance(arg, Tensor)
eager_reduce_asserting(st, op, arg, reduce_dims) ==
    IF IsTensor(st.heap, arg) THEN Reduce(st, arg, op, reduce_dims) ELSE Raise(st)

\* eager_reduce of opteinsum_engine.py
eager_reduce(st, op, arg, reduce_dims) == Reduce(st, arg, op, reduce_dims)

\* eval(x) under EagerEval: the nested eval of each child, then the handler
\* of the variant on the evaluated fields.  engine is "engine" (the eval of
\* engine.py) or "opteinsum" (the interpreter of opteinsum_engine.py).  The
\* eval of engine.py reads `x.v` of a Unary, an attribute Unary does not
\* have, and ends in `raise NotImplementedError` for a variant it has no
\* case for; the interpreter leaves such a variant as it is.
RECURSIVE EagerEval(_, _, _)
RECURSIVE EvalOperands(_, _, _)

\* tuple(eval(tx) for tx in x.operands)
EvalOperands(st, xs, engine) ==
    IF xs = <<>> THEN [st |-> st, ok |-> TRUE, vals |-> <<>>]
    ELSE LET r == EagerEval(st, Head(xs), engine)
             rest == EvalOperands(r.st, Tail(xs), engine)
         IN  IF ~r.ok THEN [st |-> st, ok |-> FALSE, vals |-> <<>>]
             ELSE [rest EXCEPT !.vals = <<r.val>> \o @]

EagerEval(st, x, engine) ==
    LET self == st.heap[x]
        kids == EvalOperands(st, CASE self.cls \in {"Unary", "Reduction"} -> <<self.args[2]>>
                                   [] self.cls = "Binary" -> <<self.args[2], self.args[3]>>
                                   [] self.cls = "Finitary" -> self.args[2]
                                   [] OTHER -> <<>>,
                             engine)
    IN  IF ~kids.ok THEN Raise(st)
        ELSE CASE self.cls \in {"Tensor", "Arange"} -> Return(st, x)
               [] self.cls = "Variable" -> eager_variable(st, self.dims[1], self.shape[1])
               [] self.cls = "Unary" ->
                      IF engine = "engine" THEN Raise(st)
                      ELSE UnaryOf(kids.st, kids.vals[1], self.args[1])
               [] self.cls = "Binary" ->
                      BinaryOf(kids.st, kids.vals[1], self.args[1], kids.vals[2])
               [] self.cls = "Finitary" -> eager_finitary(kids.st, self.args[1], kids.vals)
               [] self.cls = "Reduction" ->
                      IF engine = "engine"
                      THEN eager_reduce_asserting(kids.st, self.args[1], kids.vals[1], self.args[3])
                      ELSE eager_reduce(kids.st, self.args[1], kids.vals[1], self.args[3])
               [] OTHER -> IF engine = "engine" THEN Raise(st) ELSE Return(st, x)

----------------------------------------------------------------------------
(* SpecEinsum: optimize_reduction on Finitary(mul, (a, b, c)) with a over  *)
(* (i, j), b over (j, k), c over (k, l), eliminating {j, k}, for every     *)
(* input data with entries in 0..MaxValue; then the eager evaluation of    *)
(* the pairwise tree and of the flat reduction.                            *)

InitEinsum ==
    /\ \E adata \in DataOf(1, <<2, 2>>), bdata \in DataOf(2, <<2, 2>>),
          cdata \in DataOf(3, <<2, 1>>) :
          LET a == New([Empty EXCEPT !.nextData = 4], "Tensor", <<(<<"i", "j">>), adata>>)
              b == New(a.st, "Tensor", <<(<<"j", "k">>), bdata>>)
              c == New(b.st, "Tensor", <<(<<"k", "l">>), cdata>>)
              arg == New(c.st, "Finitary", <<"mul", <<a.val, b.val, c.val>> >>)
              st == arg.st
          IN  /\ heap = st.heap
              /\ cache = st.cache
              /\ nextId = st.nextId
              /\ nextData = st.nextData
              /\ held = DOMAIN st.heap
              /\ opt = [pc |-> "call", op |-> "add", arg |-> arg.val,
                        reduce_dims |-> {"j", "k"},
                        inputs |-> <<>>, operands |-> <<>>,
                        reduce_dim_counter |-> EmptyCounter,
                        folded |-> <<>>, step |-> NoStep,
                        path_end |-> NoObject, result |-> NoObject]
    /\ call = NoCall
    /\ ret = NoRet
    /\ TrampolineIdle

\* the tree optimize_reduction returned is evaluated eagerly; the tensors of
\* the inner steps are reclaimed
EvaluateTree ==
    /\ opt.pc = "done"
    /\ \E tree \in {EagerEval(Now, opt.result, "opteinsum")} :
           /\ Becomes(Collect(tree.st, held \cup {tree.val}))
           /\ held' = held \cup {tree.val}
           /\ ret' = [ok |-> tree.ok, val |-> tree.val, val2 |-> NoObject]
           /\ opt' = [opt EXCEPT !.pc = "tree"]
    /\ UNCHANGED call
    /\ UNCHANGED trampVars

\* the flat Reduction(op, arg, reduce_dims) is evaluated eagerly
EvaluateFlat ==
    /\ opt.pc = "tree"
    /\ \E flat \in {New(Now, "Reduction", <<opt.op, opt.arg, opt.reduce_dims>>)} :
       \E direct \in {EagerEval(flat.st, flat.val, "opteinsum")} :
           /\ Becomes(Collect(direct.st, held \cup {direct.val}))
           /\ held' = held \cup {direct.val}
           /\ ret' = [ret EXCEPT !.ok = @ /\ direct.ok, !.val2 = direct.val]
           /\ opt' = [opt EXCEPT !.pc = "evaluated"]
    /\ UNCHANGED call
    /\ UNCHANGED trampVars

NextEinsum ==
    \/ BuildInputs
    \/ PathStep
    \/ FinalReduce
    \/ EvaluateTree
    \/ EvaluateFlat

SpecEinsum == InitEinsum /\ [][NextEinsum]_vars

\* two dense tensors over the same set of dims with the same entry at
\* every assignment of the dims
SameTensor(x, y) ==
    /\ IsTensor(heap, x)
    /\ IsTensor(heap, y)
    /\ Range(heap[x].dims) = Range(heap[y].dims)
    /\ LET D == Range(heap[x].dims)
           size == [d \in D |-> heap[x].shape[PosOf(heap[x].dims, d)]]
       IN  /\ \A d \in D : heap[y].shape[PosOf(heap[y].dims, d)] = size[d]
           /\ \A a \in Envs(D, size) :
                  At(TensorData(heap, x), heap[x].dims, a)
                      = At(TensorData(heap, y), heap[y].dims, a)

\* C13: for operands over {i,j}, {j,k}, {k,l}, eliminated set {j,k} and
\* every input data over a bounded integer range, evaluating the pairwise
\* tree of optimize_reduction yields the dims {i,l} and the values of the
\* flat three-way combination reduced over j and k directly.
C13_TreeEqualsFlat ==
    opt.pc = "evaluated" =>
        /\ ret.ok
        /\ Range(heap[ret.val].dims) = {"i", "l"}
        /\ SameTensor(ret.val, ret.val2)

\* a tree whose first pairwise step combined a with c, with a nonzero entry
C13_Witness ==
    /\ opt.pc = "evaluated"
    /\ ret.ok
    /\ opt.inputs = <<{"i", "j"}, {"j", "k"}, {"k", "l"}>>
    /\ \E a \in Envs({"i", "l"}, [d \in {"i", "l"} |-> IF d = "i" THEN 2 ELSE 1]) :
           At(TensorData(heap, ret.val), heap[ret.val].dims, a) > 1

----------------------------------------------------------------------------
(* SpecEager: eval(x) of engine.py and of opteinsum_engine.py on a lazy    *)
(* term of depth up to 2 over a discrete Variable, a Variable of a         *)
(* continuous domain and a dense Tensor.                                   *)

\* Variable('i', 2), Variable('j', 'real') and a Tensor over ('i',)
EagerPool ==
    LET vi == New(Empty, "Variable", <<"i", 2>>)
        vj == New(vi.st, "Variable", <<"j", REAL>>)
        t  == New([vj.st EXCEPT !.nextData = 2], "Tensor",
                  <<(<<"i">>), [did |-> 1, shape |-> <<2>>,
                                val |-> [idx \in Indices(<<2>>) |-> 1]]>>)
    IN  t.st

EagerKinds == {"leaf", "Unary", "Binary", "Finitary", "Reduction", "Align"}

\* a term of the given variant over the terms v and w of st
WrapTerm(st, kind, op, v, w) ==
    CASE kind = "leaf"      -> Return(st, v)
      [] kind = "Unary"     -> New(st, "Unary", <<"neg", v>>)
      [] kind = "Binary"    -> New(st, "Binary", <<op, v, w>>)
      [] kind = "Finitary"  -> New(st, "Finitary", <<op, <<v, w>> >>)
      [] kind = "Reduction" -> New(st, "Reduction", <<op, v, Range(st.heap[v].dims)>>)
      [] kind = "Align"     -> New(st, "Align", <<v, st.heap[v].dims, st.heap[v].shape>>)

Engines == {"engine", "opteinsum"}

InitEager ==
    /\ \E k1 \in EagerKinds, k \in EagerKinds, o1 \in PointwiseOps, o \in PointwiseOps,
          v1 \in 1..3, w1 \in 1..3, w \in 1..3, engine \in Engines :
          LET a == WrapTerm(EagerPool, k1, o1, v1, w1)
              x == WrapTerm(a.st, k, o, a.val, w)
          IN  /\ a.ok
              /\ x.ok
              /\ heap = x.st.heap
              /\ cache = x.st.cache
              /\ nextId = x.st.nextId
              /\ nextData = x.st.nextData
              /\ held = DOMAIN x.st.heap
              /\ call = [m |-> "eval", x |-> x.val, engine |-> engine]
    /\ ret = NoRet
    /\ opt = [pc |-> "call"]
    /\ TrampolineIdle

\* eval(x); what the evaluation built and did not return is reclaimed
CallEval ==
    /\ opt.pc = "call"
    /\ call.m = "eval"
    /\ \E r \in {EagerEval(Now, call.x, call.engine)} : Finish(r)

NextEager == CallEval

SpecEager == InitEager /\ [][NextEager]_vars

\* a term that evaluates to itself: a Variable of a continuous domain
StaysLazy(x) == heap[x].cls = "Variable" /\ heap[x].shape[1] = REAL

\* no handler applies to x: a variant the evaluator has no case for, or a
\* Reduction or Finitary with an argument that is still lazy once evaluated
NoHandlerApplies(x) ==
    \/ heap[x].cls = "Align"
    \/ heap[x].cls = "Reduction" /\ StaysLazy(heap[x].args[2])
    \/ /\ heap[x].cls = "Finitary"
       /\ \E n \in DOMAIN heap[x].args[2] : StaysLazy(heap[x].args[2][n])

\* C16: eager evaluation of a term for which no handler applies (a variant
\* the evaluator has no case for, or a Reduction/Finitary whose evaluated
\* argument is still lazy) returns a lazy node instead of failing.
C16_UnhandledReturnsLazy ==
    (opt.pc \in {"returned", "raised"} /\ call.m = "eval" /\ NoHandlerApplies(call.x)) =>
        /\ ret.ok
        /\ ~IsTensor(heap, ret.val)

----------------------------------------------------------------------------
(* SpecCall: a keyword call of a dense tensor x over ('i', 'j'), each bound *)
(* dim getting an int, a complete slice, a dim name, a dense tensor or a   *)
(* lazy Variable.                                                          *)

CallTarget == New([Empty EXCEPT !.nextData = 6], "Tensor",
                  <<(<<"i", "j">>), [did |-> 1, shape |-> <<2, 2>>]>>)

CallOverK == New(CallTarget.st, "Tensor", <<(<<"k">>), [did |-> 2, shape |-> <<2>>]>>)

CallOverI == New(CallOverK.st, "Tensor", <<(<<"i">>), [did |-> 3, shape |-> <<2>>]>>)

CallOverJ == New(CallOverI.st, "Tensor", <<(<<"j">>), [did |-> 4, shape |-> <<2>>]>>)

CallOverKJ == New(CallOverJ.st, "Tensor", <<(<<"k", "j">>), [did |-> 5, shape |-> <<2, 2>>]>>)

CallVariableJ == New(CallOverKJ.st, "Variable", <<"j", 2>>)

CallVariableK == New(CallVariableJ.st, "Variable", <<"k", 2>>)

\* the tensor called (object 1) and the terms its dims are bound to
CallPool == CallVariableK.st

CallValues ==
    {IntArg(0), FullSlice, StrArg("j"), StrArg("k")}
        \cup {TermArg(v) : v \in DOMAIN CallPool.heap \ {CallTarget.val}}

InitCall ==
    /\ \E bound \in SUBSET {"i", "j"} : \E kwargs \in [bound -> CallValues] :
          call = [m |-> "callkw", x |-> CallTarget.val, kwargs |-> kwargs]
    /\ heap = CallPool.heap
    /\ cache = CallPool.cache
    /\ nextId = CallPool.nextId
    /\ nextData = CallPool.nextData
    /\ held = DOMAIN CallPool.heap
    /\ ret = NoRet
    /\ opt = [pc |-> "call"]
    /\ TrampolineIdle

\* x(i=..., j=...)
CallKeywords ==
    /\ opt.pc = "call"
    /\ call.m = "callkw"
    /\ \E r \in {Tensor__call__(Now, call.x, <<>>, call.kwargs)} : Finish(r)

NextCall == CallKeywords

SpecCall == InitCall /\ [][NextCall]_vars

\* the dims a replacement value brings: the dims of a term, the name a
\* dim is renamed to
ReplacementDims(v) ==
    CASE v.kind = "term" -> Range(heap[v.n].dims)
      [] v.kind = "str"  -> {v.name}
      [] OTHER           -> {}

\* the call binds both dims of x, and the value of the first brings the
\* second dim, or the value of the second brings a dim other than the
\* second that stands in x once the first is replaced
CollidingReplacement ==
    LET d1 == heap[call.x].dims[1]
        d2 == heap[call.x].dims[2]
        v1 == call.kwargs[d1]
        v2 == call.kwargs[d2]
        standing == IF v1.kind = "slice" THEN {d1} ELSE ReplacementDims(v1)
    IN  /\ DOMAIN call.kwargs = {d1, d2}
        /\ \/ d2 \in ReplacementDims(v1)
           \/ (ReplacementDims(v2) \ {d2}) \cap standing # {}

\* C21: a call on a dense tensor that binds several dims at once fails,
\* and returns no term, whenever a replacement value's dims include a dim
\* bound later in the same call or a dim, other than the one replaced, that
\* the tensor still retains.
C21_CollisionFails ==
    (opt.pc \in {"returned", "raised"} /\ call.m = "callkw" /\ CollidingReplacement) =>
        /\ opt.pc = "raised"
        /\ DOMAIN heap = DOMAIN CallPool.heap

====
